---- MODULE Spec2Model ----
(***************************************************************************)
(* The interview session orchestrator of public/src/interview.js: the      *)
(* termination coordinator (stopInterview, handleEndInterviewSignal, the   *)
(* fail-safe timer), the recording coordinator it awaits, the transcript   *)
(* assembler (upsertMessage, appendToMessage) with its export              *)
(* (buildTranscriptFromDom), and the usage ledger (response.done, the      *)
(* speech bracket).                                                        *)
(*                                                                         *)
(* The script's module-level variables are the VARIABLES below.  Every     *)
(* function of the script is an operator from a state record to a state    *)
(* record (Cur is the record of the current state, Commit writes a record  *)
(* back), so that a handler that calls another handler is their            *)
(* composition.  One action is one task of the browser's event loop: the   *)
(* handler and every microtask continuation that follows it.               *)
(***************************************************************************)
EXTENDS Integers, Sequences, FiniteSets, TLC

\* ------------------------------------------------------------------ bounds
\* Start actions on one page.
MaxSessions == 2
\* Timer handles setTimeout hands out on one page.
MaxTimerIds == 3
\* Clock ticks the fail-safe delay of 5000 ms is divided into.
FailSafeTicks == 2
\* Chunks the recorder delivers before it is stopped.
MaxChunks == 1
\* Ceiling of the per-session counters of teardown effects.
CountCap == 3
\* Longest text an event carries, and longest text a turn accumulates.
MaxLen == 2
\* Deltas one item's text is split into in the streaming scenario.
MaxDeltas == 3
\* Tokens the usage ledger holds in all before no further usage is reported.
MaxTokens == 12
\* Last reading of the clock.
MaxClock == 4
\* Longest text a turn accumulates in a live session that is then exported.
MaxExportLen == 2
\* Steps of one teardown that the history keeps.
MaxLog == 12

\* ------------------------------------------------------------------- state
VARIABLES
    \* interview.js 19-32: connection, media and recorder handles
    peerConnection,            \* "null" | "new" | "connected"
    dataChannel,               \* "null" | "connecting" | "open" | "closed"
    cameraStream,              \* BOOLEAN: handle present
    candidateAudioStream,      \* BOOLEAN: handle present
    assistantAudioStream,      \* BOOLEAN: handle present
    combinedRecorder,          \* "null" | "recording" | "inactive"
    combinedChunks,            \* number of chunks collected
    combinedRecordingStopped,  \* "null" | "pending" | "resolved"
    activeRecorders,           \* MediaRecorder objects in state 'recording'
    isSessionActive,
    hasSentGreeting,
    sessionDetails,            \* BOOLEAN: fetched (non-null)
    \* interview.js 67-71: termination state
    alreadyEnded,
    pendingEndInterview,
    outputAudioActive,
    pendingEndTimeout,         \* 0 (null) or a timer handle
    \* interview.js 74-92: usage ledger, speech bracket, transcript save
    tokenUsage,
    speechStartTimestamp,      \* 0 (null) or the clock at speech_started
    userSpeaking,
    pendingTranscriptSave,     \* BOOLEAN: the promise is set (non-null)
    \* the two controls of the page
    startDisabled,
    stopDisabled,
    \* interview.js 788-791: the chat log and the transcript caches
    chatContainer,             \* sequence of message elements
    messageElements,           \* item id -> index into chatContainer
    messageTextCache,          \* item id -> text
    currentAssistantItemId,
    currentUserItemId,
    \* the browser: timers, tracks, the closed channel's queued messages
    timers,                    \* armed timer handle -> ticks left
    nextTimerId,
    micTrackLive,
    cameraTrackLive,           \* the camera stream's video track is live
    lateDelivery,
    sentEvents,                \* types of the events sent on the data channel
    USE_AZURE_REALTIME,        \* interview.js 33: the page's ?azure=1
    now,                       \* Date.now()
    stopwatchInterval,         \* BOOLEAN: the interval is set (non-null)
    savedTranscript,           \* bodies POSTed to /transcript, in order
    costSummary,               \* what logCostSummary logged, in order
    \* positions of the two async functions
    startPc,                   \* "idle" | "awaitMic" | "awaitAnswer" |
                               \* "awaitToken" | "awaitDirect"
    stopPc,                    \* "idle" | "awaitStop" | "awaitUpload"
    savePc,                    \* "idle" | "awaitTranscript" | "awaitAnalyze"
    \* history: what the current session has done so far
    sessionNo,
    stopRequests,
    teardownStarted,
    teardownFinished,
    uploadCount,
    uploadFailed,              \* the upload request of this session failed
    negotiationLog,            \* requests and failures of getSdpAnswer so far
    endTrigger,                \* "none" | "user" | "playback" | "timer"
    audioAtTeardown,           \* outputAudioActive when teardown began
    teardownLog,               \* steps of stopInterview taken so far, in order
    saveLog,                   \* hand-offs to and requests of the transcript
                               \* save, of all sessions
    streamOrigin,              \* the sessions in which the stream handles, and
                               \* the streams the recorder mixes, were received
    seenCases,                 \* cases of handlers that have happened so far
    \* the event stream of the streaming scenario
    fullText,                  \* item id -> the text its done event carries
    deltaLog,                  \* item id -> lengths of the deltas delivered
    doneSeen,                  \* item ids whose done event was delivered
    createdSeen,               \* item ids whose created event was delivered
    shorterKept                \* an upsert with a shorter text was handled

vars == << peerConnection, dataChannel, cameraStream, candidateAudioStream,
           assistantAudioStream, combinedRecorder, combinedChunks,
           combinedRecordingStopped, activeRecorders, isSessionActive,
           hasSentGreeting,
           sessionDetails, alreadyEnded, pendingEndInterview, outputAudioActive,
           pendingEndTimeout, tokenUsage, speechStartTimestamp, userSpeaking,
           pendingTranscriptSave, startDisabled, stopDisabled, chatContainer,
           messageElements, messageTextCache, currentAssistantItemId,
           currentUserItemId, timers, nextTimerId, micTrackLive, lateDelivery,
           cameraTrackLive, sentEvents, USE_AZURE_REALTIME,
           now, savedTranscript, costSummary,
           startPc, stopPc, sessionNo, stopRequests, teardownStarted,
           teardownFinished, uploadCount, uploadFailed, negotiationLog,
           endTrigger, audioAtTeardown,
           stopwatchInterval, teardownLog, savePc, saveLog, streamOrigin, seenCases,
           fullText, deltaLog, doneSeen, createdSeen, shorterKept >>

Cur ==
    [ peerConnection |-> peerConnection, dataChannel |-> dataChannel,
      cameraStream |-> cameraStream,
      candidateAudioStream |-> candidateAudioStream,
      assistantAudioStream |-> assistantAudioStream,
      combinedRecorder |-> combinedRecorder,
      combinedChunks |-> combinedChunks,
      combinedRecordingStopped |-> combinedRecordingStopped,
      activeRecorders |-> activeRecorders,
      isSessionActive |-> isSessionActive,
      hasSentGreeting |-> hasSentGreeting,
      sessionDetails |-> sessionDetails,
      alreadyEnded |-> alreadyEnded,
      pendingEndInterview |-> pendingEndInterview,
      outputAudioActive |-> outputAudioActive,
      pendingEndTimeout |-> pendingEndTimeout,
      tokenUsage |-> tokenUsage,
      speechStartTimestamp |-> speechStartTimestamp,
      userSpeaking |-> userSpeaking,
      pendingTranscriptSave |-> pendingTranscriptSave,
      startDisabled |-> startDisabled, stopDisabled |-> stopDisabled,
      chatContainer |-> chatContainer,
      messageElements |-> messageElements,
      messageTextCache |-> messageTextCache,
      currentAssistantItemId |-> currentAssistantItemId,
      currentUserItemId |-> currentUserItemId,
      timers |-> timers, nextTimerId |-> nextTimerId,
      micTrackLive |-> micTrackLive, lateDelivery |-> lateDelivery,
      cameraTrackLive |-> cameraTrackLive, sentEvents |-> sentEvents,
      USE_AZURE_REALTIME |-> USE_AZURE_REALTIME,
      uploadFailed |-> uploadFailed, negotiationLog |-> negotiationLog,
      now |-> now, savedTranscript |-> savedTranscript,
      costSummary |-> costSummary,
      startPc |-> startPc, stopPc |-> stopPc, sessionNo |-> sessionNo,
      stopRequests |-> stopRequests, teardownStarted |-> teardownStarted,
      teardownFinished |-> teardownFinished, uploadCount |-> uploadCount,
      endTrigger |-> endTrigger, audioAtTeardown |-> audioAtTeardown,
      stopwatchInterval |-> stopwatchInterval,
      teardownLog |-> teardownLog,
      savePc |-> savePc,
      saveLog |-> saveLog,
      streamOrigin |-> streamOrigin,
      seenCases |-> seenCases ]

\* r is evaluated once.
Commit(r) ==
    \E x \in {r} :
        /\ peerConnection' = x.peerConnection
        /\ dataChannel' = x.dataChannel
        /\ cameraStream' = x.cameraStream
        /\ candidateAudioStream' = x.candidateAudioStream
        /\ assistantAudioStream' = x.assistantAudioStream
        /\ combinedRecorder' = x.combinedRecorder
        /\ combinedChunks' = x.combinedChunks
        /\ combinedRecordingStopped' = x.combinedRecordingStopped
        /\ activeRecorders' = x.activeRecorders
        /\ isSessionActive' = x.isSessionActive
        /\ hasSentGreeting' = x.hasSentGreeting
        /\ sessionDetails' = x.sessionDetails
        /\ alreadyEnded' = x.alreadyEnded
        /\ pendingEndInterview' = x.pendingEndInterview
        /\ outputAudioActive' = x.outputAudioActive
        /\ pendingEndTimeout' = x.pendingEndTimeout
        /\ tokenUsage' = x.tokenUsage
        /\ speechStartTimestamp' = x.speechStartTimestamp
        /\ userSpeaking' = x.userSpeaking
        /\ pendingTranscriptSave' = x.pendingTranscriptSave
        /\ startDisabled' = x.startDisabled
        /\ stopDisabled' = x.stopDisabled
        /\ chatContainer' = x.chatContainer
        /\ messageElements' = x.messageElements
        /\ messageTextCache' = x.messageTextCache
        /\ currentAssistantItemId' = x.currentAssistantItemId
        /\ currentUserItemId' = x.currentUserItemId
        /\ timers' = x.timers
        /\ nextTimerId' = x.nextTimerId
        /\ micTrackLive' = x.micTrackLive
        /\ lateDelivery' = x.lateDelivery
        /\ cameraTrackLive' = x.cameraTrackLive
        /\ sentEvents' = x.sentEvents
        /\ USE_AZURE_REALTIME' = x.USE_AZURE_REALTIME
        /\ uploadFailed' = x.uploadFailed
        /\ negotiationLog' = x.negotiationLog
        /\ now' = x.now
        /\ savedTranscript' = x.savedTranscript
        /\ costSummary' = x.costSummary
        /\ startPc' = x.startPc
        /\ stopPc' = x.stopPc
        /\ sessionNo' = x.sessionNo
        /\ stopRequests' = x.stopRequests
        /\ teardownStarted' = x.teardownStarted
        /\ teardownFinished' = x.teardownFinished
        /\ uploadCount' = x.uploadCount
        /\ endTrigger' = x.endTrigger
        /\ audioAtTeardown' = x.audioAtTeardown
        /\ stopwatchInterval' = x.stopwatchInterval
        /\ teardownLog' = x.teardownLog
        /\ savePc' = x.savePc
        /\ saveLog' = x.saveLog
        /\ streamOrigin' = x.streamOrigin
        /\ seenCases' = x.seenCases

\* The state is the one record r describes.
StateIs(r) ==
    /\ peerConnection = r.peerConnection
    /\ dataChannel = r.dataChannel
    /\ cameraStream = r.cameraStream
    /\ candidateAudioStream = r.candidateAudioStream
    /\ assistantAudioStream = r.assistantAudioStream
    /\ combinedRecorder = r.combinedRecorder
    /\ combinedChunks = r.combinedChunks
    /\ combinedRecordingStopped = r.combinedRecordingStopped
    /\ activeRecorders = r.activeRecorders
    /\ isSessionActive = r.isSessionActive
    /\ hasSentGreeting = r.hasSentGreeting
    /\ sessionDetails = r.sessionDetails
    /\ alreadyEnded = r.alreadyEnded
    /\ pendingEndInterview = r.pendingEndInterview
    /\ outputAudioActive = r.outputAudioActive
    /\ pendingEndTimeout = r.pendingEndTimeout
    /\ tokenUsage = r.tokenUsage
    /\ speechStartTimestamp = r.speechStartTimestamp
    /\ userSpeaking = r.userSpeaking
    /\ pendingTranscriptSave = r.pendingTranscriptSave
    /\ startDisabled = r.startDisabled
    /\ stopDisabled = r.stopDisabled
    /\ chatContainer = r.chatContainer
    /\ messageElements = r.messageElements
    /\ messageTextCache = r.messageTextCache
    /\ currentAssistantItemId = r.currentAssistantItemId
    /\ currentUserItemId = r.currentUserItemId
    /\ timers = r.timers
    /\ nextTimerId = r.nextTimerId
    /\ micTrackLive = r.micTrackLive
    /\ lateDelivery = r.lateDelivery
    /\ cameraTrackLive = r.cameraTrackLive
    /\ sentEvents = r.sentEvents
    /\ USE_AZURE_REALTIME = r.USE_AZURE_REALTIME
    /\ uploadFailed = r.uploadFailed
    /\ negotiationLog = r.negotiationLog
    /\ now = r.now
    /\ savedTranscript = r.savedTranscript
    /\ costSummary = r.costSummary
    /\ startPc = r.startPc
    /\ stopPc = r.stopPc
    /\ sessionNo = r.sessionNo
    /\ stopRequests = r.stopRequests
    /\ teardownStarted = r.teardownStarted
    /\ teardownFinished = r.teardownFinished
    /\ uploadCount = r.uploadCount
    /\ endTrigger = r.endTrigger
    /\ audioAtTeardown = r.audioAtTeardown
    /\ stopwatchInterval = r.stopwatchInterval
    /\ teardownLog = r.teardownLog
    /\ savePc = r.savePc
    /\ saveLog = r.saveLog
    /\ streamOrigin = r.streamOrigin
    /\ seenCases = r.seenCases

\* F of the value of v: v is evaluated once, however often F uses it.
Then(v, F(_)) == CHOOSE r \in { F(x) : x \in {v} } : TRUE

streamVars == << fullText, deltaLog, doneSeen, createdSeen, shorterKept >>

\* ------------------------------------------------------------------- texts
\* A text is a sequence of characters; the empty sequence is ''.
NoText == << >>
Transcribing == << "Transcribing..." >>
SessionEndedText == << "Interview session ended" >>
ErrorText == << "Failed to start interview" >>

\* No item id (null, undefined or '').
NoId == "null"

Bump(n) == IF n < CountCap THEN n + 1 ELSE n

\* History: stopInterview has taken `step`.
Log(s, step) ==
    IF Len(s.teardownLog) < MaxLog
    THEN [s EXCEPT !.teardownLog = Append(@, step)]
    ELSE s

\* ----------------------------------------------------------- chat log (DOM)
\* addSystemMessage: a 'message system' element with no role of its own and
\* no message-content child.
addSystemMessage(s, text) ==
    [s EXCEPT !.chatContainer =
        Append(@, [itemId |-> NoId, role |-> "system", content |-> text,
                   pending |-> FALSE, hasContentDiv |-> FALSE])]

showError(s, text) == addSystemMessage(s, << "Error: " >> \o text)

\* ------------------------------------------------------ transcript export
\* String.prototype.trim over the texts of the model, whose only white space
\* is the blank.
RECURSIVE trimStart(_)
trimStart(t) ==
    IF t # << >> /\ Head(t) = " " THEN trimStart(Tail(t)) ELSE t

RECURSIVE trimEnd(_)
trimEnd(t) ==
    IF t # << >> /\ t[Len(t)] = " "
    THEN trimEnd(SubSeq(t, 1, Len(t) - 1))
    ELSE t

trim(t) == trimEnd(trimStart(t))

\* String.prototype.toUpperCase over the role names.
toUpperCase(role) ==
    CASE role = "user" -> "USER"
      [] role = "assistant" -> "ASSISTANT"
      [] role = "system" -> "SYSTEM"
      [] OTHER -> role

\* msg.textContent: the text of the role label followed by the text of the
\* message-content child; a system message is its text alone.
textContent(m) ==
    IF m.hasContentDiv THEN << toUpperCase(m.role) >> \o m.content
    ELSE m.content

\* msg.dataset.role || 'system'
datasetRole(m) == IF m.hasContentDiv THEN m.role ELSE "system"

\* The `content` buildTranscriptFromDom computes for one element: the trimmed
\* text of its message-content child, or, when there is no such child or that
\* text is empty, the trimmed text of the whole element.
exportContent(m) ==
    LET inner == IF m.hasContentDiv THEN trim(m.content) ELSE NoText
    IN  IF inner # NoText THEN inner ELSE trim(textContent(m))

\* `${role.toUpperCase()}: ${content}`
exportLine(m) ==
    << toUpperCase(datasetRole(m)), ": " >> \o exportContent(m)

\* buildTranscriptFromDom: the lines of the elements whose content is not
\* empty, in document order.
RECURSIVE buildLines(_)
buildLines(messages) ==
    IF messages = << >> THEN << >>
    ELSE LET rest == buildLines(Tail(messages))
         IN  IF exportContent(Head(messages)) # NoText
             THEN << exportLine(Head(messages)) >> \o rest
             ELSE rest

buildTranscriptFromDom(s) == buildLines(s.chatContainer)

\* History: the transcript save of session s.sessionNo has taken `step`.
Saved(s, step) ==
    [s EXCEPT !.saveLog = Append(@, [session |-> s.sessionNo, step |-> step])]

\* saveTranscriptAndAnalysis up to its first fetch: nothing is posted when a
\* save was already begun or the transcript is empty.
saveTranscriptAndAnalysis(s0) ==
    Then(Log(s0, "transcript hand-off"), LAMBDA s :
    LET transcript == buildTranscriptFromDom(s)
        s1 == IF transcript # << >> THEN Saved(s, "hand-off") ELSE s
    IN  IF s1.pendingTranscriptSave THEN s1
        ELSE IF transcript = << >> THEN s1
        ELSE [Saved(s1, "transcript")
                  EXCEPT !.pendingTranscriptSave = TRUE,
                         !.savedTranscript = Append(@, transcript),
                         !.savePc = "awaitTranscript"])

\* saveTranscriptAndAnalysis when its POST to /transcript settled: fetch
\* resolves whatever the status of the response, and the POST to /analyze
\* follows; a rejected fetch is caught and logged.
transcriptPostSettled(s, outcome) ==
    IF outcome = "rejected"
    THEN [Saved(s, outcome) EXCEPT !.savePc = "idle"]
    ELSE [Saved(Saved(s, outcome), "analyze") EXCEPT !.savePc = "awaitAnalyze"]

\* saveTranscriptAndAnalysis when its POST to /analyze settled.
analyzePostSettled(s) == [s EXCEPT !.savePc = "idle"]

\* logCostSummary: the ledger as it stands is logged.
logCostSummary(s0) ==
    Then(s0, LAMBDA s :
    Log([s EXCEPT !.costSummary = Append(@, s.tokenUsage)], "cost summary"))

\* ----------------------------------------------------------- speech bracket
Max(a, b) == IF a >= b THEN a ELSE b

\* stopInterview lines 440-446.  The clock counts milliseconds and
\* speechDurationSeconds is kept in thousandths of a second, so that the
\* division by 1000 is exact.
\* The finalization that closes the bracket without crediting it.
finalizeSpeechNoCredit(s0) ==
    Then(s0, LAMBDA s :
    IF s.userSpeaking /\ s.speechStartTimestamp # 0
    THEN [s EXCEPT !.userSpeaking = FALSE,
                   !.speechStartTimestamp = 0,
                   !.seenCases = @ \cup {"open turn closed at teardown"}]
    ELSE s)

\* seenCases records that the branch was taken.
finalizeSpeech(s0) ==
    Then(s0, LAMBDA s :
    IF s.userSpeaking /\ s.speechStartTimestamp # 0
    THEN Log([s EXCEPT !.tokenUsage.speechDurationSeconds =
                           @ + Max(s.now - s.speechStartTimestamp, 0),
                       !.userSpeaking = FALSE,
                       !.speechStartTimestamp = 0,
                       !.seenCases = @ \cup {"open turn closed at teardown"}],
             "speech finalized")
    ELSE s)

\* case 'input_audio_buffer.speech_started'
onSpeechStarted(s0) ==
    Then(s0, LAMBDA s :
    [s EXCEPT !.userSpeaking = TRUE, !.speechStartTimestamp = s.now])

\* case 'input_audio_buffer.speech_stopped'
onSpeechStopped(s0) ==
    Then(s0, LAMBDA s :
    LET s1 == IF s.userSpeaking /\ s.speechStartTimestamp # 0
              THEN [s EXCEPT !.tokenUsage.speechDurationSeconds =
                                 @ + Max(s.now - s.speechStartTimestamp, 0)]
              ELSE s
    IN  [s1 EXCEPT !.speechStartTimestamp = 0, !.userSpeaking = FALSE])

\* --------------------------------------------------------------- recording
\* tryStartCombinedRecording without its test for a recorder that is recording.
tryStartCombinedRecordingNoActiveCheck(s0) ==
    Then(s0, LAMBDA s :
    IF ~s.cameraStream \/ ~s.candidateAudioStream \/ ~s.assistantAudioStream
    THEN s
    ELSE [s EXCEPT !.combinedChunks = 0,
                   !.combinedRecorder = "recording",
                   !.combinedRecordingStopped = "pending",
                   !.activeRecorders = @ + 1])

\* tryStartCombinedRecording: a no-op unless the three stream handles are
\* present and no recorder is recording.
tryStartCombinedRecording(s0) ==
    Then(s0, LAMBDA s :
    IF ~s.cameraStream \/ ~s.candidateAudioStream \/ ~s.assistantAudioStream
    THEN s
    ELSE IF s.combinedRecorder = "recording"
    THEN s
    ELSE [s EXCEPT !.combinedChunks = 0,
                   !.combinedRecorder = "recording",
                   !.combinedRecordingStopped = "pending",
                   !.activeRecorders = @ + 1,
                   !.streamOrigin.mixedCandidate = s.streamOrigin.candidate,
                   !.streamOrigin.mixedAssistant = s.streamOrigin.assistant])

\* stopCombinedRecording after its await (or when there is nothing to await).
stopCombinedRecordingTail(s) ==
    Log([s EXCEPT !.combinedRecorder = "null",
                  !.combinedRecordingStopped = "null"],
        "recorder stopped")

\* ------------------------------------------------------------------ timers
clearTimeout(s, id) ==
    [s EXCEPT !.timers = [i \in (DOMAIN s.timers) \ {id} |-> s.timers[i]]]

\* setTimeout(cb, 5000) of handleEndInterviewSignal: a fresh handle, due after
\* FailSafeTicks ticks.
setTimeout(s0) ==
    Then(s0, LAMBDA s :
    [s EXCEPT !.timers = [i \in (DOMAIN s.timers) \cup {s.nextTimerId} |->
                             IF i = s.nextTimerId THEN FailSafeTicks
                             ELSE s.timers[i]],
              !.pendingEndTimeout = s.nextTimerId,
              !.nextTimerId = s.nextTimerId + 1])

\* --------------------------------------------------------------- stopwatch
\* startStopwatch: the interval that advances the elapsed-time display is set.
startStopwatch(s) == [s EXCEPT !.stopwatchInterval = TRUE]

\* stopStopwatch: the interval is cleared.
stopStopwatch(s) ==
    Log([s EXCEPT !.stopwatchInterval = FALSE], "stopwatch stopped")

\* ------------------------------------------------------------- termination
\* The tail of stopInterview that resets alreadyEnded with the other flags.
stopInterviewTailResetsFence(s0) ==
    Then(s0, LAMBDA s :
    addSystemMessage(
        saveTranscriptAndAnalysis(logCostSummary(finalizeSpeech(
        [s EXCEPT !.isSessionActive = FALSE,
                  !.startDisabled = FALSE,
                  !.stopDisabled = TRUE,
                  !.hasSentGreeting = FALSE,
                  !.currentAssistantItemId = NoId,
                  !.currentUserItemId = NoId,
                  !.alreadyEnded = FALSE,
                  !.pendingEndInterview = FALSE,
                  !.outputAudioActive = FALSE,
                  !.stopPc = "idle",
                  !.teardownFinished = Bump(@)]))),
        SessionEndedText))

\* The tail of stopInterview that hands the transcript off before it stops
\* the stopwatch and logs the cost summary.
stopInterviewTailSavesFirst(s0) ==
    Then(saveTranscriptAndAnalysis(s0), LAMBDA s :
    Log(addSystemMessage(
        logCostSummary(finalizeSpeech(stopStopwatch(
        [s EXCEPT !.isSessionActive = FALSE,
                  !.startDisabled = FALSE,
                  !.stopDisabled = TRUE,
                  !.hasSentGreeting = FALSE,
                  !.currentAssistantItemId = NoId,
                  !.currentUserItemId = NoId,
                  !.pendingEndInterview = FALSE,
                  !.outputAudioActive = FALSE,
                  !.stopPc = "idle",
                  !.teardownFinished = Bump(@)]))),
        SessionEndedText), "terminal message"))

\* stopInterview from the line after `await stopCombinedRecording()` to its
\* end.
stopInterviewTail(s0) ==
    Then(stopStopwatch(s0), LAMBDA s :
    Log(addSystemMessage(
        saveTranscriptAndAnalysis(logCostSummary(finalizeSpeech(
        [s EXCEPT !.isSessionActive = FALSE,
                  !.startDisabled = FALSE,
                  !.stopDisabled = TRUE,
                  !.hasSentGreeting = FALSE,
                  !.currentAssistantItemId = NoId,
                  !.currentUserItemId = NoId,
                  !.pendingEndInterview = FALSE,
                  !.outputAudioActive = FALSE,
                  !.stopPc = "idle",
                  !.teardownFinished = Bump(@)]))),
        SessionEndedText), "terminal message"))

\* stopInterview that enables the start control before it awaits the
\* recorder.
stopInterviewBodyEnablesStart(s0) ==
    Then(s0, LAMBDA s :
    LET s1 == [s EXCEPT !.alreadyEnded = TRUE,
                        !.startDisabled = FALSE,
                        !.teardownStarted = Bump(@),
                        !.audioAtTeardown = s.outputAudioActive]
        s2 == IF s1.dataChannel # "null"
              THEN Log([s1 EXCEPT !.dataChannel = "null",
                                  !.lateDelivery = (s1.dataChannel = "open")],
                       "channel closed")
              ELSE s1
        s3 == IF s2.peerConnection # "null"
              THEN Log(Log([s2 EXCEPT !.micTrackLive = FALSE,
                                      !.peerConnection = "null"],
                           "tracks stopped"), "connection closed")
              ELSE s2
    IN  IF s3.combinedRecorder = "recording"
        THEN IF s3.combinedRecordingStopped # "null"
             THEN [s3 EXCEPT !.combinedRecorder = "inactive",
                             !.activeRecorders = @ - 1,
                             !.stopPc = "awaitStop"]
             ELSE stopInterviewTail(stopCombinedRecordingTail(
                      [s3 EXCEPT !.combinedRecorder = "inactive",
                                 !.activeRecorders = @ - 1]))
        ELSE stopInterviewTail(stopCombinedRecordingTail(s3)))

\* stopInterview lines 410-425: close the channel and the connection, stop the
\* recorder; suspended at the await while a recording is being stopped, and
\* otherwise run to the end.
stopInterviewBody(s0) ==
    Then(s0, LAMBDA s :
    LET s1 == [s EXCEPT !.alreadyEnded = TRUE,
                        !.teardownStarted = Bump(@),
                        !.audioAtTeardown = s.outputAudioActive]
        s2 == IF s1.dataChannel # "null"
              THEN Log([s1 EXCEPT !.dataChannel = "null",
                                  !.lateDelivery = (s1.dataChannel = "open")],
                       "channel closed")
              ELSE s1
        s3 == IF s2.peerConnection # "null"
              THEN Log(Log([s2 EXCEPT !.micTrackLive = FALSE,
                                      !.peerConnection = "null"],
                           "tracks stopped"), "connection closed")
              ELSE s2
    IN  IF s3.combinedRecorder = "recording"
        THEN IF s3.combinedRecordingStopped # "null"
             THEN [s3 EXCEPT !.combinedRecorder = "inactive",
                             !.activeRecorders = @ - 1,
                             !.stopPc = "awaitStop"]
             ELSE stopInterviewTail(stopCombinedRecordingTail(
                      [s3 EXCEPT !.combinedRecorder = "inactive",
                                 !.activeRecorders = @ - 1]))
        ELSE stopInterviewTail(stopCombinedRecordingTail(s3)))

\* stopInterview without its alreadyEnded fence.
stopInterviewUnfenced(s0) ==
    Then(s0, LAMBDA s :
    LET s1 == IF s.pendingEndTimeout # 0
              THEN [clearTimeout(s, s.pendingEndTimeout)
                        EXCEPT !.pendingEndTimeout = 0]
              ELSE s
        s2 == [s1 EXCEPT !.stopRequests = Bump(@)]
    IN  stopInterviewBody(s2))

\* stopInterview that, like the model's own end signal, lets a goodbye that is
\* still playing finish first.
stopInterviewWaitsForAudio(s0) ==
    Then(s0, LAMBDA s :
    IF s.pendingEndInterview /\ s.outputAudioActive /\ ~s.alreadyEnded
    THEN [s EXCEPT !.stopRequests = Bump(@)]
    ELSE LET s1 == IF s.pendingEndTimeout # 0
                   THEN [clearTimeout(s, s.pendingEndTimeout)
                             EXCEPT !.pendingEndTimeout = 0]
                   ELSE s
             s2 == [s1 EXCEPT !.stopRequests = Bump(@)]
         IN  IF s2.alreadyEnded THEN s2 ELSE stopInterviewBody(s2))

stopInterview(s0) ==
    Then(s0, LAMBDA s :
    LET s1 == IF s.pendingEndTimeout # 0
              THEN [clearTimeout(s, s.pendingEndTimeout)
                        EXCEPT !.pendingEndTimeout = 0]
              ELSE s
        s2 == [s1 EXCEPT !.stopRequests = Bump(@)]
    IN  IF s2.alreadyEnded THEN s2 ELSE stopInterviewBody(s2))

\* handleEndInterviewSignal that tears down at once when no audio is playing.
handleEndInterviewSignalEager(s0) ==
    Then(s0, LAMBDA s :
    IF s.alreadyEnded THEN s
    ELSE LET s1 == [s EXCEPT !.pendingEndInterview = TRUE]
         IN  IF ~s1.outputAudioActive THEN stopInterview(s1)
             ELSE setTimeout(IF s1.pendingEndTimeout # 0
                             THEN clearTimeout(s1, s1.pendingEndTimeout)
                             ELSE s1))

\* handleEndInterviewSignal that arms a new timer without clearing the old one.
handleEndInterviewSignalNoClear(s0) ==
    Then(s0, LAMBDA s :
    IF s.alreadyEnded THEN s
    ELSE setTimeout([s EXCEPT !.pendingEndInterview = TRUE]))

handleEndInterviewSignal(s0) ==
    Then(s0, LAMBDA s :
    IF s.alreadyEnded THEN s
    ELSE LET s1 == [s EXCEPT !.pendingEndInterview = TRUE]
         IN  setTimeout(IF s1.pendingEndTimeout # 0
                        THEN clearTimeout(s1, s1.pendingEndTimeout)
                        ELSE s1))

\* The fail-safe callback that spares a session whose audio is still playing.
failSafeCallbackWaitsForAudio(s0) ==
    Then(s0, LAMBDA s :
    IF s.pendingEndInterview /\ ~s.alreadyEnded /\ ~s.outputAudioActive
    THEN stopInterview(s)
    ELSE s)

\* The callback handleEndInterviewSignal hands to setTimeout.
failSafeCallback(s0) ==
    Then(s0, LAMBDA s :
    IF s.pendingEndInterview /\ ~s.alreadyEnded THEN stopInterview(s) ELSE s)

\* --------------------------------------------------------- session start-up
NoTimers == [i \in {} |-> 0]
NoItems == [i \in {} |-> 0]

\* The tokenUsage object as the script creates it.
NoUsage ==
    [ response |-> [ textInput |-> 0, audioInput |-> 0, textOutput |-> 0,
                     audioOutput |-> 0, cachedTextInput |-> 0,
                     cachedAudioInput |-> 0, seenResponseIds |-> {} ],
      transcription |-> [ totalTokens |-> 0, audioTokens |-> 0 ],
      speechDurationSeconds |-> 0 ]

\* The page as the script's top-level declarations leave it.
Blank ==
    [ peerConnection |-> "null",
      dataChannel |-> "null",
      cameraStream |-> FALSE,
      candidateAudioStream |-> FALSE,
      assistantAudioStream |-> FALSE,
      combinedRecorder |-> "null",
      combinedChunks |-> 0,
      combinedRecordingStopped |-> "null",
      activeRecorders |-> 0,
      isSessionActive |-> FALSE,
      hasSentGreeting |-> FALSE,
      sessionDetails |-> FALSE,
      alreadyEnded |-> FALSE,
      pendingEndInterview |-> FALSE,
      outputAudioActive |-> FALSE,
      pendingEndTimeout |-> 0,
      tokenUsage |-> NoUsage,
      speechStartTimestamp |-> 0,
      userSpeaking |-> FALSE,
      pendingTranscriptSave |-> FALSE,
      now |-> 1,
      savedTranscript |-> << >>,
      costSummary |-> << >>,
      startDisabled |-> TRUE,
      stopDisabled |-> TRUE,
      chatContainer |-> << >>,
      messageElements |-> NoItems,
      messageTextCache |-> NoItems,
      currentAssistantItemId |-> NoId,
      currentUserItemId |-> NoId,
      timers |-> NoTimers,
      nextTimerId |-> 1,
      micTrackLive |-> FALSE,
      lateDelivery |-> FALSE,
      cameraTrackLive |-> FALSE,
      sentEvents |-> << >>,
      USE_AZURE_REALTIME |-> FALSE,
      uploadFailed |-> FALSE,
      negotiationLog |-> << >>,
      startPc |-> "idle",
      stopPc |-> "idle",
      sessionNo |-> 0,
      stopRequests |-> 0,
      teardownStarted |-> 0,
      teardownFinished |-> 0,
      uploadCount |-> 0,
      endTrigger |-> "none",
      audioAtTeardown |-> FALSE,
      stopwatchInterval |-> FALSE,
      teardownLog |-> << >>,
      savePc |-> "idle",
      saveLog |-> << >>,
      streamOrigin |-> [ candidate |-> 0, assistant |-> 0,
                        mixedCandidate |-> 0, mixedAssistant |-> 0 ],
      seenCases |-> {} ]

SessionInit == StateIs(Blank)

\* The page is opened with or without ?azure=1.
Init ==
    /\ \E azure \in BOOLEAN :
           StateIs([Blank EXCEPT !.USE_AZURE_REALTIME = azure])
    /\ fullText = NoItems /\ deltaLog = NoItems /\ doneSeen = {}
    /\ createdSeen = {} /\ shorterKept = FALSE

\* initializeSession that enables the start control only with a camera.
initializeSessionNeedsCamera(s, cameraGranted) ==
    [s EXCEPT !.sessionDetails = TRUE,
              !.hasSentGreeting = FALSE,
              !.cameraStream = cameraGranted,
              !.cameraTrackLive = cameraGranted,
              !.startDisabled = ~cameraGranted]

\* initializeSession for an existing session whose fetch succeeds; initCamera
\* sets cameraStream when the camera is granted and only reports otherwise.
initializeSession(s, cameraGranted) ==
    [s EXCEPT !.sessionDetails = TRUE,
              !.hasSentGreeting = FALSE,
              !.cameraStream = cameraGranted,
              !.cameraTrackLive = cameraGranted,
              !.startDisabled = FALSE]

\* startInterview up to `await getUserMedia({audio: true})`.
startInterviewBegin(s) ==
    [s EXCEPT !.startDisabled = TRUE,
              !.hasSentGreeting = FALSE,
              !.currentAssistantItemId = NoId,
              !.currentUserItemId = NoId,
              !.alreadyEnded = FALSE,
              !.pendingEndInterview = FALSE,
              !.outputAudioActive = FALSE,
              !.peerConnection = "new",
              !.startPc = "awaitMic"]

\* startInterview from the microphone stream to `await getSdpAnswer(...)`,
\* whose first request (to /session, or to /azure/session) is then under way.
startInterviewMic(s) ==
    [s EXCEPT !.candidateAudioStream = TRUE,
              !.streamOrigin.candidate = s.sessionNo,
              !.micTrackLive = TRUE,
              !.dataChannel = "connecting",
              !.negotiationLog = Append(@, "relay"),
              !.startPc = "awaitAnswer"]

\* startInterview after the answer: setRemoteDescription, and the function ends.
startInterviewAnswer(s) ==
    [s EXCEPT !.peerConnection = "connected", !.startPc = "idle"]

\* A catch block of startInterview that reports the error and leaves the
\* start control as it is.
startInterviewCatchKeepsStartDisabled(s) ==
    [showError(s, ErrorText) EXCEPT !.hasSentGreeting = FALSE,
                                    !.startPc = "idle"]

\* The catch block of startInterview.
startInterviewCatch(s) ==
    [showError(s, ErrorText) EXCEPT !.startDisabled = FALSE,
                                    !.hasSentGreeting = FALSE,
                                    !.startPc = "idle"]

\* getSdpAnswer that answers a failure of its first request with the same
\* request again.
getSdpAnswerCatchRetries(s0) ==
    Then(s0, LAMBDA s :
    [s EXCEPT !.negotiationLog = @ \o << "relayFailed", "relay" >>])

\* getSdpAnswer when its first request failed: the Azure branch throws, the
\* other branch catches and calls negotiateDirectly, which requests /token.
getSdpAnswerCatch(s0) ==
    Then(s0, LAMBDA s :
    LET s1 == [s EXCEPT !.negotiationLog = Append(@, "relayFailed")]
    IN  IF s1.USE_AZURE_REALTIME
        THEN startInterviewCatch(s1)
        ELSE [s1 EXCEPT !.negotiationLog = Append(@, "token"),
                        !.startPc = "awaitToken"])

\* negotiateDirectly after /token answered: with a client secret the offer is
\* posted to the provider, and without one (or with an error status) it throws.
negotiateDirectly(s0, tokenOk) ==
    Then(s0, LAMBDA s :
    IF tokenOk
    THEN [s EXCEPT !.negotiationLog = Append(@, "direct"),
                   !.startPc = "awaitDirect"]
    ELSE startInterviewCatch(
             [s EXCEPT !.negotiationLog = Append(@, "tokenFailed")]))

\* negotiateDirectly when the provider refused the offer: it throws.
negotiateDirectlyFailed(s) ==
    startInterviewCatch([s EXCEPT !.negotiationLog = Append(@, "directFailed")])

\* sendEvent: the event is sent when the data channel is open, and dropped
\* otherwise.
sendEvent(s, type) ==
    IF s.dataChannel = "open"
    THEN [s EXCEPT !.sentEvents = Append(@, type)]
    ELSE s

\* The 'close' listener of the data channel: the closure is logged.  The
\* handle stays in dataChannel, with readyState 'closed'.
onDataChannelClose(s) == [s EXCEPT !.dataChannel = "closed"]

\* pc.ontrack
onTrack(s0) ==
    Then(s0, LAMBDA s :
    IF ~s.assistantAudioStream
    THEN tryStartCombinedRecording(
             [s EXCEPT !.assistantAudioStream = TRUE,
                       !.streamOrigin.assistant = s.sessionNo])
    ELSE s)

\* triggerInitialGreeting without its hasSentGreeting test.
triggerInitialGreetingUnguarded(s0) ==
    Then(s0, LAMBDA s :
    [sendEvent(s, "response.create") EXCEPT !.hasSentGreeting = TRUE])

triggerInitialGreeting(s0) ==
    Then(s0, LAMBDA s :
    IF s.hasSentGreeting THEN s
    ELSE [sendEvent(s, "response.create") EXCEPT !.hasSentGreeting = TRUE])

\* The data channel's 'open' listener.
onDataChannelOpen(s0) ==
    Then(s0, LAMBDA s :
    triggerInitialGreeting(startStopwatch(sendEvent(
        tryStartCombinedRecording(
            [s EXCEPT !.dataChannel = "open",
                      !.isSessionActive = TRUE,
                      !.stopDisabled = FALSE]), "session.update"))))

\* ------------------------------------------------ server events (Spec part)
\* case 'response.output_item.added' / 'response.output_item.done'
onOutputItem(s, item) ==
    IF item.type = "function_call" /\ item.name = "end_interview"
       /\ ~s.alreadyEnded
    THEN handleEndInterviewSignal(s)
    ELSE s

\* case 'output_audio_buffer.started'
onOutputAudioStarted(s) == [s EXCEPT !.outputAudioActive = TRUE]

\* case 'output_audio_buffer.stopped' that only clears the flag.
onOutputAudioStoppedFlagOnly(s0) ==
    Then(s0, LAMBDA s :
    [s EXCEPT !.outputAudioActive = FALSE])

\* case 'output_audio_buffer.stopped'
onOutputAudioStopped(s0) ==
    Then(s0, LAMBDA s :
    LET s1 == [s EXCEPT !.outputAudioActive = FALSE]
    IN  IF s1.pendingEndInterview /\ ~s1.alreadyEnded
        THEN stopInterview(s1)
        ELSE s1)

\* ------------------------------------------------------------ usage ledger
\* A field the event does not carry (undefined).
Absent == -1

\* x ?? 0
orZero(x) == IF x = Absent THEN 0 ELSE x

\* The amounts with a cached total that has no breakdown credited to the
\* audio cache.
usageAmountsCachedToAudio(usage) ==
    LET textIn == orZero(usage.text_tokens)
        audioIn == orZero(usage.audio_tokens)
        cachedTotal == orZero(usage.cached_tokens)
        cachedText == orZero(usage.cached_text_tokens)
        cachedAudio == IF usage.cached_audio_tokens # Absent
                       THEN usage.cached_audio_tokens
                       ELSE Max(cachedTotal - cachedText, 0)
    IN  [ cachedTextInput |-> cachedText,
          cachedAudioInput |-> cachedAudio,
          textInput |-> Max(textIn - cachedText, 0),
          audioInput |-> Max(audioIn - cachedAudio, 0),
          textOutput |-> orZero(usage.out_text_tokens),
          audioOutput |-> orZero(usage.out_audio_tokens) ]

\* The amounts with the non-cached remainders not floored at zero.
usageAmountsUnfloored(usage) ==
    LET textIn == orZero(usage.text_tokens)
        audioIn == orZero(usage.audio_tokens)
        cachedTotal == orZero(usage.cached_tokens)
        cachedAudio == orZero(usage.cached_audio_tokens)
        cachedText == IF usage.cached_text_tokens # Absent
                      THEN usage.cached_text_tokens
                      ELSE Max(cachedTotal - cachedAudio, 0)
    IN  [ cachedTextInput |-> cachedText,
          cachedAudioInput |-> cachedAudio,
          textInput |-> textIn - cachedText,
          audioInput |-> audioIn - cachedAudio,
          textOutput |-> orZero(usage.out_text_tokens),
          audioOutput |-> orZero(usage.out_audio_tokens) ]

\* The six amounts the response.done handler adds for a usage payload.
usageAmounts(usage) ==
    LET textIn == orZero(usage.text_tokens)
        audioIn == orZero(usage.audio_tokens)
        textOut == orZero(usage.out_text_tokens)
        audioOut == orZero(usage.out_audio_tokens)
        cachedTotal == orZero(usage.cached_tokens)
        cachedAudio == orZero(usage.cached_audio_tokens)
        cachedText == IF usage.cached_text_tokens # Absent
                      THEN usage.cached_text_tokens
                      ELSE Max(cachedTotal - cachedAudio, 0)
    IN  [ cachedTextInput |-> cachedText,
          cachedAudioInput |-> cachedAudio,
          textInput |-> Max(textIn - cachedText, 0),
          audioInput |-> Max(audioIn - cachedAudio, 0),
          textOutput |-> textOut,
          audioOutput |-> audioOut ]

\* response.done lines 689-709: the amounts are added to the ledger.
recordUsage(s, usage) ==
    LET a == usageAmounts(usage)
    IN  [s EXCEPT !.tokenUsage.response.cachedTextInput = @ + a.cachedTextInput,
                  !.tokenUsage.response.cachedAudioInput = @ + a.cachedAudioInput,
                  !.tokenUsage.response.textInput = @ + a.textInput,
                  !.tokenUsage.response.audioInput = @ + a.audioInput,
                  !.tokenUsage.response.textOutput = @ + a.textOutput,
                  !.tokenUsage.response.audioOutput = @ + a.audioOutput]

\* case 'response.done' that counts every event, seen or not.
onResponseDoneNoDedupe(s, ev) ==
    LET s1 == IF ev.id # NoId
              THEN [s EXCEPT !.tokenUsage.response.seenResponseIds =
                                 @ \cup {ev.id}]
              ELSE s
        s2 == IF ev.hasUsage THEN recordUsage(s1, ev.usage) ELSE s1
    IN  IF ev.endCall /\ ~s2.alreadyEnded
        THEN handleEndInterviewSignal(s2)
        ELSE s2

\* case 'response.done'; ev.endCall says that response.output holds an
\* end_interview function call.
onResponseDone(s, ev) ==
    IF ev.id # NoId /\ ev.id \in s.tokenUsage.response.seenResponseIds
    THEN s
    ELSE LET s1 == IF ev.id # NoId
                   THEN [s EXCEPT !.tokenUsage.response.seenResponseIds =
                                      @ \cup {ev.id}]
                   ELSE s
             s2 == IF ev.hasUsage THEN recordUsage(s1, ev.usage) ELSE s1
         IN  IF ev.endCall /\ ~s2.alreadyEnded
             THEN handleEndInterviewSignal(s2)
             ELSE s2

\* combinedRecorder.onstop that uploads a blob whether or not a chunk was
\* collected.
recorderOnStopUploadsEmpty(s0) ==
    Then(s0, LAMBDA s :
    [s EXCEPT !.uploadCount = Bump(@), !.stopPc = "awaitUpload"])

\* combinedRecorder.onstop that starts the upload and resolves without
\* awaiting it.
recorderOnStopNoAwait(s0) ==
    Then(s0, LAMBDA s :
    stopInterviewTail(stopCombinedRecordingTail(
        [s EXCEPT !.uploadCount = IF s.combinedChunks > 0 THEN Bump(@) ELSE @,
                  !.combinedChunks = 0,
                  !.combinedRecordingStopped = "resolved"])))

\* combinedRecorder.onstop up to `await uploadMedia(...)`, or to its end when
\* no chunk was collected; then the awaiting stopInterview resumes.
recorderOnStop(s0) ==
    Then(s0, LAMBDA s :
    IF s.combinedChunks > 0
    THEN [s EXCEPT !.uploadCount = Bump(@), !.stopPc = "awaitUpload"]
    ELSE stopInterviewTail(stopCombinedRecordingTail(
             [s EXCEPT !.combinedChunks = 0,
                       !.combinedRecordingStopped = "resolved"])))

\* uploadMedia that makes a second request when the first one failed.
uploadMediaRetries(s, ok) ==
    [s EXCEPT !.uploadFailed = ~ok,
              !.uploadCount = IF ok THEN @ ELSE Bump(@)]

\* uploadMedia when its request settled: a failure is caught and logged.
uploadMedia(s, ok) == [s EXCEPT !.uploadFailed = ~ok]

\* combinedRecorder.onstop after uploadMedia settled (it catches its own
\* failure): the finally block, then the awaiting stopInterview resumes.
recorderOnStopFinally(s0) ==
    Then(s0, LAMBDA s :
    stopInterviewTail(stopCombinedRecordingTail(
        [s EXCEPT !.combinedChunks = 0,
                  !.combinedRecordingStopped = "resolved"])))

\* ----------------------------------------------------------------- actions
Items ==
    { [type |-> "function_call", name |-> "end_interview"],
      [type |-> "function_call", name |-> "other"],
      [type |-> "message", name |-> "none"] }

\* A message of the control channel can be dispatched while the channel is
\* open, and the ones queued at close() until the channel has drained.
Deliverable == dataChannel = "open" \/ lateDelivery

\* History: which request began the teardown, when this step begins it.
Triggered(r, who) ==
    [r EXCEPT !.endTrigger = IF r.alreadyEnded /\ ~alreadyEnded THEN who ELSE @]

PageLoad ==
    /\ ~sessionDetails
    /\ \E cameraGranted \in BOOLEAN :
           Commit(initializeSession(Cur, cameraGranted))
    /\ UNCHANGED streamVars

StartClick ==
    /\ ~startDisabled
    /\ startPc = "idle"
    /\ sessionNo < MaxSessions
    /\ Commit([startInterviewBegin(Cur) EXCEPT
                   !.sessionNo = @ + 1, !.stopRequests = 0,
                   !.teardownStarted = 0, !.teardownFinished = 0,
                   !.uploadCount = 0, !.endTrigger = "none",
                   !.audioAtTeardown = FALSE, !.lateDelivery = FALSE,
                   !.uploadFailed = FALSE, !.negotiationLog = << >>,
                   !.sentEvents = << >>,
                   !.teardownLog = << >>])
    /\ UNCHANGED streamVars

MicGranted ==
    /\ startPc = "awaitMic"
    /\ Commit(startInterviewMic(Cur))
    /\ UNCHANGED streamVars

MicDenied ==
    /\ startPc = "awaitMic"
    /\ Commit(startInterviewCatch(Cur))
    /\ UNCHANGED streamVars

\* The first request of getSdpAnswer returned the answer.
NegotiationOk ==
    /\ startPc = "awaitAnswer"
    /\ Commit(startInterviewAnswer(Cur))
    /\ UNCHANGED streamVars

\* The first request of getSdpAnswer failed.
NegotiationFailed ==
    /\ startPc = "awaitAnswer"
    /\ Commit(getSdpAnswerCatch(Cur))
    /\ UNCHANGED streamVars

\* /token answered.
TokenSettled ==
    /\ startPc = "awaitToken"
    /\ \E tokenOk \in BOOLEAN : Commit(negotiateDirectly(Cur, tokenOk))
    /\ UNCHANGED streamVars

\* The provider returned the answer to the offer posted directly.
DirectOk ==
    /\ startPc = "awaitDirect"
    /\ Commit(startInterviewAnswer(Cur))
    /\ UNCHANGED streamVars

\* The provider refused the offer posted directly.
DirectFailed ==
    /\ startPc = "awaitDirect"
    /\ Commit(negotiateDirectlyFailed(Cur))
    /\ UNCHANGED streamVars

OnTrack ==
    /\ peerConnection = "connected"
    /\ Commit(onTrack(Cur))
    /\ UNCHANGED streamVars

DcOpen ==
    /\ dataChannel = "connecting"
    /\ peerConnection = "connected"
    /\ Commit(onDataChannelOpen(Cur))
    /\ UNCHANGED streamVars

\* The POST to /transcript settles: with a 2xx response, with an error status,
\* or with a network failure.
TranscriptPostSettled ==
    /\ savePc = "awaitTranscript"
    /\ \E outcome \in {"ok", "httpError", "rejected"} :
           Commit(transcriptPostSettled(Cur, outcome))
    /\ UNCHANGED streamVars

AnalyzePostSettled ==
    /\ savePc = "awaitAnalyze"
    /\ Commit(analyzePostSettled(Cur))
    /\ UNCHANGED streamVars

\* The peer or the transport closes the open channel.
DcClosed ==
    /\ dataChannel = "open"
    /\ Commit(onDataChannelClose(Cur))
    /\ UNCHANGED streamVars

DcDrained ==
    /\ lateDelivery
    /\ Commit([Cur EXCEPT !.lateDelivery = FALSE])
    /\ UNCHANGED streamVars

OnOutputItemOf(item) ==
    /\ Deliverable
    /\ nextTimerId <= MaxTimerIds
    /\ Commit(onOutputItem(Cur, item))
    /\ UNCHANGED streamVars

OnOutputItem == \E item \in Items : OnOutputItemOf(item)

OnOutputAudioStarted ==
    /\ Deliverable
    /\ Commit(onOutputAudioStarted(Cur))
    /\ UNCHANGED streamVars

OnOutputAudioStopped ==
    /\ Deliverable
    /\ Commit(Triggered(onOutputAudioStopped(Cur), "playback"))
    /\ UNCHANGED streamVars

StopClick ==
    /\ ~stopDisabled
    /\ Commit(Triggered(stopInterview(Cur), "user"))
    /\ UNCHANGED streamVars

\* One tick of the clock: every armed timer that is not yet due comes closer.
Tick ==
    /\ \E i \in DOMAIN timers : timers[i] > 0
    /\ Commit([Cur EXCEPT !.timers =
                   [i \in DOMAIN timers |->
                       IF timers[i] > 0 THEN timers[i] - 1 ELSE 0]])
    /\ UNCHANGED streamVars

\* A due timer fires: it is spent, and its callback runs.
TimerFire ==
    /\ \E id \in DOMAIN timers :
           /\ timers[id] = 0
           /\ Commit(Triggered(failSafeCallback(clearTimeout(Cur, id)),
                               "timer"))
    /\ UNCHANGED streamVars

\* combinedRecorder.ondataavailable, while recording and for the last chunk a
\* stopped recorder delivers before its stop event.
DataAvailable ==
    /\ combinedRecorder = "recording" \/ stopPc = "awaitStop"
    /\ combinedChunks < MaxChunks
    /\ Commit([Cur EXCEPT !.combinedChunks = @ + 1])
    /\ UNCHANGED streamVars

RecorderOnStop ==
    /\ stopPc = "awaitStop"
    /\ Commit(recorderOnStop(Cur))
    /\ UNCHANGED streamVars

UploadSettled ==
    /\ stopPc = "awaitUpload"
    /\ \E ok \in BOOLEAN : Commit(recorderOnStopFinally(uploadMedia(Cur, ok)))
    /\ UNCHANGED streamVars

Next ==
    \/ PageLoad
    \/ StartClick
    \/ MicGranted
    \/ MicDenied
    \/ NegotiationOk
    \/ NegotiationFailed
    \/ TokenSettled
    \/ DirectOk
    \/ DirectFailed
    \/ OnTrack
    \/ DcOpen
    \/ DcClosed
    \/ DcDrained
    \/ OnOutputItem
    \/ OnOutputAudioStarted
    \/ OnOutputAudioStopped
    \/ StopClick
    \/ Tick
    \/ TimerFire
    \/ DataAvailable
    \/ RecorderOnStop
    \/ UploadSettled
    \/ TranscriptPostSettled
    \/ AnalyzePostSettled

Spec == Init /\ [][Next]_vars

\* The browser runs due timers and dispatches the recorder's stop event and
\* the upload's settlement; time passes.
LiveSpec ==
    /\ Spec
    /\ WF_vars(Tick)
    /\ WF_vars(TimerFire)
    /\ WF_vars(RecorderOnStop)
    /\ WF_vars(UploadSettled)

TypeOK ==
    /\ peerConnection \in {"null", "new", "connected"}
    /\ dataChannel \in {"null", "connecting", "open", "closed"}
    /\ combinedRecorder \in {"null", "recording", "inactive"}
    /\ combinedChunks \in 0..MaxChunks
    /\ pendingEndTimeout \in 0..MaxTimerIds
    /\ stopPc \in {"idle", "awaitStop", "awaitUpload"}
    /\ savePc \in {"idle", "awaitTranscript", "awaitAnalyze"}
    /\ startPc \in {"idle", "awaitMic", "awaitAnswer", "awaitToken",
                   "awaitDirect"}

\* ------------------------------------------------- termination: the claims
EndItem == [type |-> "function_call", name |-> "end_interview"]

\* The program's state without the history variables.
progVars ==
    << peerConnection, dataChannel, cameraStream, candidateAudioStream,
       assistantAudioStream, combinedRecorder, combinedChunks,
       combinedRecordingStopped, isSessionActive, hasSentGreeting,
       sessionDetails, alreadyEnded, pendingEndInterview, outputAudioActive,
       pendingEndTimeout, startDisabled, stopDisabled, chatContainer,
       messageElements, messageTextCache, currentAssistantItemId,
       currentUserItemId, timers, nextTimerId, micTrackLive, lateDelivery,
       startPc, stopPc, activeRecorders, tokenUsage, speechStartTimestamp,
       userSpeaking, pendingTranscriptSave, now, cameraTrackLive, sentEvents,
       USE_AZURE_REALTIME, stopwatchInterval >>

\* progVars without outputAudioActive.
progVarsButAudio ==
    << peerConnection, dataChannel, cameraStream, candidateAudioStream,
       assistantAudioStream, combinedRecorder, combinedChunks,
       combinedRecordingStopped, isSessionActive, hasSentGreeting,
       sessionDetails, alreadyEnded, pendingEndInterview,
       pendingEndTimeout, startDisabled, stopDisabled, chatContainer,
       messageElements, messageTextCache, currentAssistantItemId,
       currentUserItemId, timers, nextTimerId, micTrackLive, lateDelivery,
       startPc, stopPc, activeRecorders, tokenUsage, speechStartTimestamp,
       userSpeaking, pendingTranscriptSave, now, cameraTrackLive, sentEvents,
       USE_AZURE_REALTIME, stopwatchInterval >>

\* 'Interview session ended' lines in the chat log.
EndedLines ==
    Len(SelectSeq(chatContainer, LAMBDA m : m.content = SessionEndedText))

\* ACTIVE = 0, ENDING = 1, ENDED = 2
Phase == IF alreadyEnded THEN 2 ELSE IF pendingEndInterview THEN 1 ELSE 0

\* C1: within one session the teardown body of stopInterview runs at most
\* once (one recorder stop and upload, one run of the tail with its terminal
\* 'Interview session ended' line), and a stop request made once the session
\* has ended changes nothing.
C1_TeardownAtMostOnce ==
    [][ /\ teardownStarted' <= 1
        /\ teardownFinished' <= 1
        /\ uploadCount' <= 1
        /\ EndedLines' <= sessionNo'
        /\ (alreadyEnded /\ StopClick) => UNCHANGED progVars ]_vars

\* Two stop requests were made in one session and the teardown ran once.
C1_Witness ==
    stopRequests >= 2 /\ teardownStarted = 1 /\ teardownFinished = 1

\* C2: an output_audio_buffer.stopped event handled while pendingEnd is set
\* and the session has not ended leaves alreadyEnded true.
C2_PlaybackStoppedEnds ==
    [][ (pendingEndInterview /\ ~alreadyEnded /\ OnOutputAudioStopped)
            => alreadyEnded' ]_vars

\* The playback-stopped event ended a session whose end was pending.
C2_Witness ==
    alreadyEnded /\ endTrigger = "playback" /\ stopRequests = 1

\* C3: under LiveSpec, a session whose end is pending is eventually ended.
C3_PendingEndLeadsToEnded ==
    (pendingEndInterview /\ ~alreadyEnded) ~> alreadyEnded

\* The fail-safe timer ended the session.
C3_Witness ==
    alreadyEnded /\ endTrigger = "timer" /\ teardownStarted = 1

\* C4: a teardown begun by the playback-stopped path or by the fail-safe
\* timer never begins while assistant audio is playing.
C4_GoodbyeNeverCutOff ==
    (alreadyEnded /\ endTrigger \in {"playback", "timer"}) => ~audioAtTeardown

\* C5: handling the end_interview function call in a session that has not
\* ended sets pendingEnd and arms the fail-safe timer, leaves alreadyEnded
\* false and leaves the channel, the connection and the recorder untouched.
C5_EndSignalDefersTeardown ==
    [][ (~alreadyEnded /\ OnOutputItemOf(EndItem))
            => /\ pendingEndInterview'
               /\ pendingEndTimeout' \in DOMAIN timers'
               /\ timers'[pendingEndTimeout'] = FailSafeTicks
               /\ ~alreadyEnded'
               /\ UNCHANGED << dataChannel, peerConnection, combinedRecorder,
                               combinedRecordingStopped, combinedChunks,
                               micTrackLive, stopPc, teardownStarted >> ]_vars

\* An end signal is pending in a live session: nothing was torn down.
C5_Witness ==
    /\ pendingEndInterview /\ ~alreadyEnded /\ pendingEndTimeout \in DOMAIN timers
    /\ dataChannel = "open" /\ peerConnection = "connected"
    /\ combinedRecorder = "recording"

C7_SingleTimerCancelledOnTeardown ==
    /\ Cardinality(DOMAIN timers) <= 1
    /\ \A id \in DOMAIN timers : id = pendingEndTimeout
    /\ alreadyEnded => (DOMAIN timers = {} /\ pendingEndTimeout = 0)

\* A teardown that the timer did not begin cancelled the armed timer.
C7_Witness ==
    /\ alreadyEnded /\ endTrigger \in {"user", "playback"}
    /\ nextTimerId > 1 /\ sessionNo = 1 /\ DOMAIN timers = {}

\* C8: between two start actions alreadyEnded never goes back to false, the
\* phase ACTIVE, ENDING, ENDED never goes back, and in an ended session no
\* step sets pendingEnd or arms a timer.
C8_TerminationOneWay ==
    [][ sessionNo' = sessionNo
            => /\ alreadyEnded => alreadyEnded'
               /\ Phase' >= Phase
               /\ alreadyEnded =>
                      /\ pendingEndInterview' => pendingEndInterview
                      /\ DOMAIN timers' = {} ]_vars

\* An ended session whose teardown is over can still be handed messages.
C8_Witness ==
    alreadyEnded /\ teardownFinished = 1 /\ lateDelivery /\ ~pendingEndInterview

\* ------------------------------------------------------ transcript assembler
Put(f, k, v) == [x \in (DOMAIN f) \cup {k} |-> IF x = k THEN v ELSE f[x]]

\* messageTextCache.get(itemId) || ''
cachedText(s, itemId) ==
    IF itemId \in DOMAIN s.messageTextCache
    THEN s.messageTextCache[itemId]
    ELSE NoText

\* createMessageElement: a new element at the end of the chat log; a user
\* element starts with the text 'Transcribing...'.
createMessageElement(s, role) ==
    [s EXCEPT !.chatContainer =
        Append(@, [itemId |-> NoId, role |-> role,
                   content |-> IF role = "user" THEN Transcribing ELSE NoText,
                   pending |-> FALSE, hasContentDiv |-> TRUE])]

\* getMessageElement that gives an existing element the role of the call.
getMessageElementRetags(s, itemId, role) ==
    IF itemId = NoId THEN createMessageElement(s, role)
    ELSE IF itemId \in DOMAIN s.messageElements
    THEN [s EXCEPT !.chatContainer[s.messageElements[itemId]].role = role]
    ELSE LET s1 == createMessageElement(s, role)
             n == Len(s1.chatContainer)
         IN  [s1 EXCEPT !.chatContainer[n].itemId = itemId,
                        !.messageElements = Put(@, itemId, n)]

\* getMessageElement: the element of itemId, created with `role` and entered
\* in messageElements when there is none.
getMessageElement(s, itemId, role) ==
    IF itemId = NoId THEN createMessageElement(s, role)
    ELSE IF itemId \in DOMAIN s.messageElements THEN s
    ELSE LET s1 == createMessageElement(s, role)
             n == Len(s1.chatContainer)
         IN  [s1 EXCEPT !.chatContainer[n].itemId = itemId,
                        !.messageElements = Put(@, itemId, n)]

\* upsertMessage that replaces the text whatever its length.
upsertMessageAlwaysReplaces(s, itemId, role, text) ==
    IF itemId = NoId THEN s
    ELSE LET s1 == getMessageElement(s, itemId, role)
             n == s1.messageElements[itemId]
             existing == cachedText(s1, itemId)
         IN  IF Len(text) > 0
             THEN [s1 EXCEPT !.chatContainer[n].content = text,
                             !.chatContainer[n].pending = FALSE,
                             !.messageTextCache = Put(@, itemId, text)]
             ELSE IF Len(existing) = 0 /\ role = "user"
             THEN [s1 EXCEPT !.chatContainer[n].content = Transcribing,
                             !.chatContainer[n].pending = TRUE]
             ELSE s1

\* upsertMessage that shows the placeholder for every empty user text.
upsertMessagePlaceholderAgain(s, itemId, role, text) ==
    IF itemId = NoId THEN s
    ELSE LET s1 == getMessageElement(s, itemId, role)
             n == s1.messageElements[itemId]
             existing == cachedText(s1, itemId)
         IN  IF Len(text) > 0
             THEN IF Len(text) >= Len(existing) \/ Len(existing) = 0
                  THEN [s1 EXCEPT !.chatContainer[n].content = text,
                                  !.chatContainer[n].pending = FALSE,
                                  !.messageTextCache = Put(@, itemId, text)]
                  ELSE [s1 EXCEPT !.chatContainer[n].pending = FALSE]
             ELSE IF role = "user"
             THEN [s1 EXCEPT !.chatContainer[n].content = Transcribing,
                             !.chatContainer[n].pending = TRUE]
             ELSE s1

upsertMessage(s, itemId, role, text) ==
    IF itemId = NoId THEN s
    ELSE LET s1 == getMessageElement(s, itemId, role)
             n == s1.messageElements[itemId]
             existing == cachedText(s1, itemId)
         IN  IF Len(text) > 0
             THEN IF Len(text) >= Len(existing) \/ Len(existing) = 0
                  THEN [s1 EXCEPT !.chatContainer[n].content = text,
                                  !.chatContainer[n].pending = FALSE,
                                  !.messageTextCache = Put(@, itemId, text)]
                  ELSE [s1 EXCEPT !.chatContainer[n].pending = FALSE]
             ELSE IF Len(existing) = 0 /\ role = "user"
             THEN [s1 EXCEPT !.chatContainer[n].content = Transcribing,
                             !.chatContainer[n].pending = TRUE]
             ELSE s1

\* appendToMessage that shows and stores the delta alone.
appendToMessageOverwrites(s, itemId, role, delta) ==
    IF itemId = NoId \/ delta = NoText THEN s
    ELSE LET s1 == getMessageElement(s, itemId, role)
             n == s1.messageElements[itemId]
         IN  [s1 EXCEPT !.chatContainer[n].content = delta,
                        !.chatContainer[n].pending = FALSE,
                        !.messageTextCache = Put(@, itemId, delta)]

\* appendToMessage that opens a new element for every delta.
appendToMessageAlwaysCreates(s, itemId, role, delta) ==
    IF itemId = NoId \/ delta = NoText THEN s
    ELSE LET s1 == createMessageElement(s, role)
             n == Len(s1.chatContainer)
             updated == cachedText(s1, itemId) \o delta
         IN  [s1 EXCEPT !.chatContainer[n].itemId = itemId,
                        !.chatContainer[n].content = updated,
                        !.messageElements = Put(@, itemId, n),
                        !.messageTextCache = Put(@, itemId, updated)]

appendToMessage(s, itemId, role, delta) ==
    IF itemId = NoId \/ delta = NoText THEN s
    ELSE LET s1 == getMessageElement(s, itemId, role)
             n == s1.messageElements[itemId]
             updated == cachedText(s1, itemId) \o delta
         IN  [s1 EXCEPT !.chatContainer[n].content = updated,
                        !.chatContainer[n].pending = FALSE,
                        !.messageTextCache = Put(@, itemId, updated)]

\* `assistant-${event.response_id || Date.now()}`
synthAssistantId(responseId) ==
    CASE responseId = "r1" -> "assistant-r1"
      [] responseId = "r2" -> "assistant-r2"
      [] OTHER -> "assistant-now"

\* event.item_id || currentAssistantItemId || `assistant-...`
assistantTargetId(s, ev) ==
    IF ev.item_id # NoId THEN ev.item_id
    ELSE IF s.currentAssistantItemId # NoId THEN s.currentAssistantItemId
    ELSE synthAssistantId(ev.response_id)

\* case 'conversation.item.created'; item.text is extractItemText(item).
onItemCreated(s, item) ==
    IF item.id = NoId \/ item.role = "none" THEN s
    ELSE LET s1 == upsertMessage(s, item.id, item.role, item.text)
         IN  IF item.role = "assistant"
             THEN [s1 EXCEPT !.currentAssistantItemId = item.id,
                             !.currentUserItemId = NoId]
             ELSE IF item.role = "user"
             THEN [s1 EXCEPT !.currentUserItemId = item.id]
             ELSE s1

\* case 'response.audio_transcript.delta'
onAssistantTranscriptDelta(s, ev) ==
    LET targetId == assistantTargetId(s, ev)
    IN  IF ev.text # NoText
        THEN [appendToMessage([s EXCEPT !.currentAssistantItemId = targetId],
                              targetId, "assistant", ev.text)
                  EXCEPT !.currentUserItemId = NoId]
        ELSE s

\* case 'response.audio_transcript.done'
onAssistantTranscriptDone(s, ev) ==
    LET targetId == assistantTargetId(s, ev)
    IN  IF ev.text # NoText
        THEN [upsertMessage(s, targetId, "assistant", ev.text)
                  EXCEPT !.currentAssistantItemId = NoId,
                         !.currentUserItemId = NoId]
        ELSE s

\* case 'conversation.item.input_audio_transcription.delta'
onUserTranscriptDelta(s, ev) ==
    IF ev.item_id # NoId /\ ev.text # NoText
    THEN appendToMessage([s EXCEPT !.currentUserItemId = ev.item_id],
                         ev.item_id, "user", ev.text)
    ELSE s

\* case 'conversation.item.input_audio_transcription.completed' of an event
\* without usage
onUserTranscriptCompleted(s, ev) ==
    IF ev.item_id # NoId /\ ev.text # NoText
    THEN upsertMessage([s EXCEPT !.currentUserItemId = ev.item_id],
                       ev.item_id, "user", ev.text)
    ELSE s

\* ---------------------------------------- transcript: any events, any texts
\* The characters of event texts: a letter and the blank.
Chars == {"a", " "}

RECURSIVE TextsOfLen(_)
TextsOfLen(n) ==
    IF n = 0 THEN { NoText }
    ELSE { Append(x, c) : x \in TextsOfLen(n - 1), c \in Chars }

Texts == UNION { TextsOfLen(n) : n \in 0..MaxLen }

ItemIds == { "A" }
ResponseIds == { "r1" }

CreatedItems ==
    [ id : ItemIds \cup {NoId}, role : {"user", "assistant", "none"},
      text : Texts ]

TranscriptEvents ==
    [ item_id : ItemIds \cup {NoId}, response_id : ResponseIds, text : Texts ]

\* History: this step hands upsertMessage a non-empty text shorter than the
\* one stored for target.
ShorterNow(target, text) ==
    /\ target # NoId
    /\ text # NoText
    /\ target \in DOMAIN messageTextCache
    /\ Len(text) < Len(messageTextCache[target])

TFrame(shorter) ==
    /\ shorterKept' = (shorterKept \/ shorter)
    /\ UNCHANGED << fullText, deltaLog, doneSeen, createdSeen >>

TItemCreatedOf(item) ==
    /\ Commit(onItemCreated(Cur, item))
    /\ TFrame(item.role # "none" /\ ShorterNow(item.id, item.text))

TItemCreated == \E item \in CreatedItems : TItemCreatedOf(item)

\* A delta is delivered while the text it extends stays within MaxLen.
TAssistantDeltaOf(ev) ==
    /\ Len(cachedText(Cur, assistantTargetId(Cur, ev))) + Len(ev.text) <= MaxLen
    /\ Commit(onAssistantTranscriptDelta(Cur, ev))
    /\ TFrame(FALSE)

TAssistantDelta == \E ev \in TranscriptEvents : TAssistantDeltaOf(ev)

TAssistantDoneOf(ev) ==
    /\ Commit(onAssistantTranscriptDone(Cur, ev))
    /\ TFrame(ShorterNow(assistantTargetId(Cur, ev), ev.text))

TAssistantDone == \E ev \in TranscriptEvents : TAssistantDoneOf(ev)

TUserDeltaOf(ev) ==
    /\ Len(cachedText(Cur, ev.item_id)) + Len(ev.text) <= MaxLen
    /\ Commit(onUserTranscriptDelta(Cur, ev))
    /\ TFrame(FALSE)

TUserDelta == \E ev \in TranscriptEvents : TUserDeltaOf(ev)

TUserCompletedOf(ev) ==
    /\ Commit(onUserTranscriptCompleted(Cur, ev))
    /\ TFrame(ShorterNow(ev.item_id, ev.text))

TUserCompleted == \E ev \in TranscriptEvents : TUserCompletedOf(ev)

TNext ==
    \/ TItemCreated
    \/ TAssistantDelta
    \/ TAssistantDone
    \/ TUserDelta
    \/ TUserCompleted

SpecT == Init /\ [][TNext]_vars

\* --------------------------------- transcript: one item's deltas, then done
HelloThere == << "H", "e", "l", "l", "o", " ", "t", "h", "e", "r", "e" >>

StreamIds == { "A", "B" }

\* A is a candidate's turn, B an assistant's.
RoleOf(id) == IF id = "A" THEN "user" ELSE "assistant"

FullTextsOf(id) ==
    IF id = "A" THEN { HelloThere, << "o", "k" >> } ELSE { << "h", "i", "!" >> }

RECURSIVE Sum(_)
Sum(q) == IF q = << >> THEN 0 ELSE Head(q) + Sum(Tail(q))

\* Characters of id's text its deltas have delivered so far.
Sent(id) == Sum(deltaLog[id])

StreamInit ==
    /\ SessionInit
    /\ fullText \in { f \in [StreamIds -> UNION { FullTextsOf(i) : i \in StreamIds }] :
                        \A i \in StreamIds : f[i] \in FullTextsOf(i) }
    /\ deltaLog = [i \in StreamIds |-> << >>]
    /\ doneSeen = {} /\ createdSeen = {} /\ shorterKept = FALSE

\* conversation.item.created of an item whose content carries no text yet.
SItemCreated ==
    \E id \in StreamIds :
        /\ id \notin createdSeen /\ id \notin doneSeen /\ deltaLog[id] = << >>
        /\ Commit(onItemCreated(Cur, [id |-> id, role |-> RoleOf(id),
                                      text |-> NoText]))
        /\ createdSeen' = createdSeen \cup {id}
        /\ UNCHANGED << fullText, deltaLog, doneSeen, shorterKept >>

\* The next n characters of id's text arrive as one delta event.
SDelta ==
    \E id \in StreamIds :
        /\ id \notin doneSeen
        /\ Len(deltaLog[id]) < MaxDeltas
        /\ \E n \in 1..(Len(fullText[id]) - Sent(id)) :
               LET ev == [item_id |-> id, response_id |-> "r1",
                          text |-> SubSeq(fullText[id], Sent(id) + 1,
                                          Sent(id) + n)]
               IN  /\ Commit(IF RoleOf(id) = "user"
                             THEN onUserTranscriptDelta(Cur, ev)
                             ELSE onAssistantTranscriptDelta(Cur, ev))
                   /\ deltaLog' = [deltaLog EXCEPT ![id] = Append(@, n)]
        /\ UNCHANGED << fullText, doneSeen, createdSeen, shorterKept >>

\* The done (completed) event of id arrives with the full text.
SDone ==
    \E id \in StreamIds :
        /\ id \notin doneSeen
        /\ LET ev == [item_id |-> id, response_id |-> "r1",
                      text |-> fullText[id]]
           IN  Commit(IF RoleOf(id) = "user"
                      THEN onUserTranscriptCompleted(Cur, ev)
                      ELSE onAssistantTranscriptDone(Cur, ev))
        /\ doneSeen' = doneSeen \cup {id}
        /\ UNCHANGED << fullText, deltaLog, createdSeen, shorterKept >>

StreamNext == SItemCreated \/ SDelta \/ SDone

SpecStream == StreamInit /\ [][StreamNext]_vars

\* --------------------------------------------------- transcript: the claims
\* Elements of the chat log that belong to item id.
ElementsOf(id) == { i \in 1..Len(chatContainer) : chatContainer[i].itemId = id }

\* The one turn of item id: its role, text and placeholder state.
TurnOf(id) ==
    LET e == chatContainer[messageElements[id]]
    IN  [role |-> e.role, text |-> e.content, pending |-> e.pending]

\* C9: for every split of an item's text into delta events, followed by its
\* done event, the chat log holds exactly one turn for the item; while the
\* deltas arrive its text is what they delivered so far, and after the done
\* event it is the done event's text, with the placeholder cleared.
C9_DeltasThenDoneGiveFullText ==
    \A id \in StreamIds :
        LET touched == id \in createdSeen \/ deltaLog[id] # << >>
                          \/ id \in doneSeen
            sofar == SubSeq(fullText[id], 1, Sent(id))
        IN  /\ Cardinality(ElementsOf(id)) = (IF touched THEN 1 ELSE 0)
            /\ touched => ElementsOf(id) = { messageElements[id] }
            /\ (id \notin doneSeen /\ deltaLog[id] # << >>)
                   => /\ messageTextCache[id] = sofar
                      /\ TurnOf(id) = [role |-> RoleOf(id), text |-> sofar,
                                        pending |-> FALSE]
            /\ id \in doneSeen
                   => /\ messageTextCache[id] = fullText[id]
                      /\ TurnOf(id) = [role |-> RoleOf(id),
                                        text |-> fullText[id],
                                        pending |-> FALSE]

\* item.created(user, A), delta 'Hel', delta 'lo there', completed
\* 'Hello there' were handled, and turn A is {user, 'Hello there', false}.
C9_Witness ==
    /\ "A" \in createdSeen /\ "A" \in doneSeen
    /\ fullText["A"] = HelloThere
    /\ deltaLog["A"] = << 3, 8 >>
    /\ TurnOf("A") = [role |-> "user", text |-> HelloThere, pending |-> FALSE]

\* Item ids an event of SpecT can name or resolve to.
KnownIds == ItemIds \cup { synthAssistantId(r) : r \in ResponseIds }

\* The stored text and the shown text of id in state s, as a pair.
StoredOf(s, id) ==
    IF id \in DOMAIN s.messageTextCache
    THEN << s.messageTextCache[id],
            s.chatContainer[s.messageElements[id]].content >>
    ELSE << NoText, NoText >>

\* C10: in every reachable state, an upsert with a non-empty text replaces
\* the stored (and shown) text of its item exactly when nothing is stored yet
\* or the text is at least as long as the stored one; a strictly shorter text
\* leaves both unchanged, and an upsert with the empty text never changes a
\* stored text.
C10_UpsertKeepsLongerText ==
    \A id \in KnownIds, role \in {"user", "assistant"}, text \in Texts :
        LET r == upsertMessage(Cur, id, role, text)
            had == id \in DOMAIN messageTextCache
        IN  IF text = NoText
            THEN r.messageTextCache = messageTextCache
            ELSE IF ~had \/ Len(text) >= Len(messageTextCache[id])
            THEN /\ r.messageTextCache = Put(messageTextCache, id, text)
                 /\ StoredOf(r, id) = << text, text >>
            ELSE /\ r.messageTextCache = messageTextCache
                 /\ StoredOf(r, id) = StoredOf(Cur, id)
                 /\ StoredOf(r, id)[1] # text

\* An upsert with a shorter text was handled and the item kept a text.
C10_Witness ==
    /\ shorterKept
    /\ "A" \in DOMAIN messageTextCache
    /\ Len(messageTextCache["A"]) >= 2

\* Deltas handed to appendToMessage, and an item id no event has named.
AppendDeltas == { << " ", "y" >> }
UnknownId == "C"

\* C11: in every reachable state, appendToMessage(itemId, role, delta) with a
\* non-empty delta leaves the stored and the shown text of itemId equal to
\* the text stored before followed by delta; an item without a turn gets a
\* new turn at the end of the log, with the given role, and starts from the
\* empty text; the turn of a known item keeps its place and its role; no
\* other turn and no other stored text changes.
C11_AppendConcatenates ==
    \A id \in StreamIds \cup {UnknownId}, role \in {"user", "assistant"},
       delta \in AppendDeltas :
        LET r == appendToMessage(Cur, id, role, delta)
            known == id \in DOMAIN messageElements
            n == Len(chatContainer)
            updated == cachedText(Cur, id) \o delta
        IN  /\ r.messageTextCache = Put(messageTextCache, id, updated)
            /\ r.chatContainer[r.messageElements[id]].content = updated
            /\ ~known => /\ cachedText(Cur, id) = NoText
                          /\ r.messageElements = Put(messageElements, id, n + 1)
                          /\ Len(r.chatContainer) = n + 1
                          /\ SubSeq(r.chatContainer, 1, n) = chatContainer
                          /\ r.chatContainer[n + 1] =
                                 [itemId |-> id, role |-> role,
                                  content |-> delta, pending |-> FALSE,
                                  hasContentDiv |-> TRUE]
            /\ known => /\ r.messageElements = messageElements
                         /\ Len(r.chatContainer) = n
                         /\ \A i \in 1..n :
                                IF i = messageElements[id]
                                THEN r.chatContainer[i] =
                                         [chatContainer[i] EXCEPT
                                              !.content = updated,
                                              !.pending = FALSE]
                                ELSE r.chatContainer[i] = chatContainer[i]

\* Two deltas, 'Hel' and 'lo there', were appended to turn A, whose done
\* event is still to come, next to a turn B that has a text of its own.
C11_Witness ==
    /\ deltaLog["A"] = << 3, 8 >> /\ "A" \notin doneSeen
    /\ messageTextCache["A"] = HelloThere
    /\ "B" \in DOMAIN messageTextCache

\* Items whose turn was created with the role 'user'.
UserTurns ==
    { id \in DOMAIN messageElements :
          chatContainer[messageElements[id]].role = "user" }

\* C12: after every step, a user turn is pending, and shows
\* 'Transcribing...', exactly when no text is stored for it, and shows the
\* stored text otherwise; a stored text never becomes empty again and a user
\* turn that is not pending never becomes pending.
C12_PlaceholderWhileNoText ==
    [][ /\ \A id \in UserTurns' :
               LET e == chatContainer'[messageElements'[id]]
                   stored == IF id \in DOMAIN messageTextCache'
                             THEN messageTextCache'[id] ELSE NoText
               IN  /\ e.pending <=> (stored = NoText)
                   /\ e.content = (IF e.pending THEN Transcribing ELSE stored)
        /\ \A id \in DOMAIN messageTextCache :
               /\ id \in DOMAIN messageTextCache'
               /\ messageTextCache'[id] # NoText
        /\ \A id \in UserTurns :
               ~chatContainer[messageElements[id]].pending
                   => ~chatContainer'[messageElements'[id]].pending ]_vars

\* User turn A has received texts, a shorter one after a longer one among
\* them, and is not a placeholder.
C12_Witness ==
    /\ "A" \in UserTurns /\ "A" \in DOMAIN messageTextCache
    /\ ~chatContainer[messageElements["A"]].pending
    /\ currentUserItemId = "A" /\ shorterKept

\* C13: a step never changes the role of an existing turn, whatever role the
\* upsert or append of the step carries for its item, and the line the turn
\* contributes to the exported transcript keeps the upper-cased role the turn
\* was created with.
C13_RoleFixedAtCreation ==
    [][ \A id \in DOMAIN messageElements :
            LET n == messageElements[id]
            IN  /\ id \in DOMAIN messageElements'
                /\ messageElements'[id] = n
                /\ chatContainer'[n].role = chatContainer[n].role
                /\ exportLine(chatContainer'[n])[1] =
                       toUpperCase(chatContainer[n].role) ]_vars

\* Turn A was created as an assistant's; a user transcript event then named
\* it and stored a text in it.
C13_Witness ==
    /\ "A" \in DOMAIN messageTextCache
    /\ chatContainer[messageElements["A"]].role = "assistant"
    /\ currentUserItemId = "A"

\* ------------------------------------- a live session: transcript and export
\* The page once a session is live: the session was loaded with the camera
\* granted, the interview was started, the microphone granted, the answer
\* applied, the assistant's track received and the data channel opened.
LiveState ==
    onDataChannelOpen(onTrack(startInterviewAnswer(startInterviewMic(
        [startInterviewBegin(initializeSession(Blank, TRUE))
             EXCEPT !.sessionNo = 1]))))

LiveInit ==
    /\ StateIs(LiveState)
    /\ fullText = NoItems /\ deltaLog = NoItems /\ doneSeen = {}
    /\ createdSeen = {} /\ shorterKept = FALSE

\* The items and texts of the events of a live session: no text, a word, and
\* a word between blanks.
XIds == { "A", "B" }
XTexts == { NoText, << "a" >>, << " ", "a", " " >> }

\* conversation.item.created, delivered by the data channel.
XItemCreated ==
    /\ Deliverable
    /\ \E id \in XIds, role \in {"user", "assistant"}, text \in XTexts :
           Commit(onItemCreated(Cur, [id |-> id, role |-> role, text |-> text]))
    /\ UNCHANGED streamVars

\* conversation.item.input_audio_transcription.delta, while the turn's text
\* stays within MaxExportLen.
XUserDelta ==
    /\ Deliverable
    /\ \E id \in XIds, text \in XTexts :
           /\ Len(cachedText(Cur, id)) + Len(text) <= MaxExportLen
           /\ Commit(onUserTranscriptDelta(Cur,
                  [item_id |-> id, response_id |-> "r1", text |-> text]))
    /\ UNCHANGED streamVars

\* response.audio_transcript.done
XAssistantDone ==
    /\ Deliverable
    /\ \E id \in XIds, text \in XTexts :
           Commit(onAssistantTranscriptDone(Cur,
               [item_id |-> id, response_id |-> "r1", text |-> text]))
    /\ UNCHANGED streamVars

XNext ==
    \/ XItemCreated
    \/ XUserDelta
    \/ XAssistantDone
    \/ StopClick
    \/ RecorderOnStop
    \/ DcDrained

SpecX == LiveInit /\ [][XNext]_vars

\* LiveState is a state of Spec.
LiveStateReached == StateIs(LiveState)

\* ------------------------------------------------ a live session: the ledger
\* response.usage payloads, flattened: input_token_details.text_tokens and
\* .audio_tokens, output_token_details.text_tokens and .audio_tokens,
\* input_token_details.cached_tokens and its cached_tokens_details.
Usages ==
    [ text_tokens : {0, 2}, audio_tokens : {2},
      out_text_tokens : {Absent, 1}, out_audio_tokens : {1},
      cached_tokens : {Absent, 1, 3},
      cached_audio_tokens : {Absent, 1, 3},
      cached_text_tokens : {Absent, 1} ]

\* The payload `{}`.
EmptyUsage ==
    [ text_tokens |-> Absent, audio_tokens |-> Absent,
      out_text_tokens |-> Absent, out_audio_tokens |-> Absent,
      cached_tokens |-> Absent, cached_audio_tokens |-> Absent,
      cached_text_tokens |-> Absent ]

UsageResponseIds == { NoId, "r1", "r2" }

\* response.done events: with a usage payload, and without one.
ResponseDoneEvents ==
    [ id : UsageResponseIds, hasUsage : {TRUE}, usage : Usages,
      endCall : {FALSE} ]
    \cup [ id : UsageResponseIds, hasUsage : {FALSE}, usage : {EmptyUsage},
            endCall : {FALSE} ]

LedgerTotal(u) ==
    u.response.textInput + u.response.audioInput + u.response.textOutput
        + u.response.audioOutput + u.response.cachedTextInput
        + u.response.cachedAudioInput

\* The event repeats a response id that was counted.
IsDuplicate(ev) ==
    ev.id # NoId /\ ev.id \in tokenUsage.response.seenResponseIds

\* History: the cases of the response.done handler this event is.
UsageCases(ev) ==
    (IF IsDuplicate(ev) THEN {"duplicate"} ELSE {})
    \cup (IF /\ ~IsDuplicate(ev) /\ ev.hasUsage
              /\ ev.usage.cached_tokens > 0
              /\ ev.usage.cached_audio_tokens = Absent
              /\ ev.usage.cached_text_tokens = Absent
           THEN {"cached total alone"} ELSE {})
    \cup (IF /\ ~IsDuplicate(ev) /\ ev.hasUsage
              /\ ev.usage.cached_audio_tokens > ev.usage.audio_tokens
           THEN {"cached exceeds input"} ELSE {})

UResponseDoneOf(ev) ==
    /\ Deliverable
    /\ LedgerTotal(onResponseDone(Cur, ev).tokenUsage) <= MaxTokens
    /\ Commit([onResponseDone(Cur, ev) EXCEPT
                   !.seenCases = @ \cup UsageCases(ev)])
    /\ UNCHANGED streamVars

UResponseDone == \E ev \in ResponseDoneEvents : UResponseDoneOf(ev)

UNext == UResponseDone

SpecU == LiveInit /\ [][UNext]_vars

\* ------------------------------------------- a live session: speech brackets
SpeechStarted ==
    /\ Deliverable
    /\ Commit(onSpeechStarted(Cur))
    /\ UNCHANGED streamVars

SpeechStopped ==
    /\ Deliverable
    /\ Commit(onSpeechStopped(Cur))
    /\ UNCHANGED streamVars

\* Date.now() reads one more.
ClockTick ==
    /\ now < MaxClock
    /\ Commit([Cur EXCEPT !.now = @ + 1])
    /\ UNCHANGED streamVars

SNext ==
    \/ SpeechStarted
    \/ SpeechStopped
    \/ ClockTick
    \/ StopClick
    \/ RecorderOnStop

SpecS == LiveInit /\ [][SNext]_vars

\* ------------------------------------------------------- export: the claims
\* The lines the turns of a chat log are to contribute to the export: one line
\* 'ROLE: text' for every turn whose content is not empty, in the order of
\* the log.  The content is taken as the trimmed text the turn shows.
RECURSIVE TurnLines(_)
TurnLines(messages) ==
    IF messages = << >> THEN << >>
    ELSE LET m == Head(messages)
             rest == TurnLines(Tail(messages))
         IN  IF m.itemId # NoId /\ trim(m.content) # NoText
             THEN << << toUpperCase(m.role), ": " >> \o trim(m.content) >>
                      \o rest
             ELSE rest

\* C14: a step never deletes or moves a turn (the item ids of the log, in
\* order, are a prefix of what they are after the step), and the transcript
\* a teardown exports is the sequence of the lines 'ROLE: text' of the turns
\* with non-empty content, in the order of the log.
C14_ExportListsTurnsInOrder ==
    [][ /\ Len(chatContainer') >= Len(chatContainer)
        /\ \A i \in 1..Len(chatContainer) :
               chatContainer'[i].itemId = chatContainer[i].itemId
        /\ savedTranscript' # savedTranscript
               => savedTranscript'[Len(savedTranscript')]
                      = TurnLines(chatContainer) ]_vars

\* The log without the user turns that are unresolved placeholders.
Resolved(messages) ==
    SelectSeq(messages, LAMBDA m : ~(m.role = "user" /\ m.pending))

\* C15: the transcript a teardown exports is the one the log would give
\* without its pending user turns: such a turn contributes no line.
C15_PlaceholdersSkipped ==
    [][ savedTranscript' # savedTranscript
            => savedTranscript'[Len(savedTranscript')]
                   = buildLines(Resolved(chatContainer)) ]_vars

\* ------------------------------------------------------- ledger: the claims
\* response.done events of every shape, an end_interview call among them.
AnyResponseDone ==
    ResponseDoneEvents
    \cup [ id : UsageResponseIds, hasUsage : {TRUE}, usage : Usages,
            endCall : {TRUE} ]

\* C16: in every reachable state, a response.done event whose response id is
\* in seenResponseIds leaves the ledger, and everything else, as it is,
\* whatever usage and output it carries; the state it leaves being the same
\* state, this holds for any number of repetitions.
C16_SeenResponseIsNoOp ==
    \A ev \in AnyResponseDone :
        IsDuplicate(ev) => onResponseDone(Cur, ev) = Cur

\* Both response ids were counted, and an event repeating one was handled.
C16_Witness ==
    /\ "duplicate" \in seenCases
    /\ tokenUsage.response.seenResponseIds = {"r1", "r2"}
    /\ LedgerTotal(tokenUsage) > 0

\* What a counted event with usage payload u adds to counter c.
Added(ev, c) ==
    onResponseDone(Cur, ev).tokenUsage.response[c] - tokenUsage.response[c]

\* Counted events that carry a usage payload.
CountedUsageEvents ==
    { ev \in ResponseDoneEvents : ev.hasUsage /\ ~IsDuplicate(ev) }

\* C17 as stated: a cached total without breakdown goes to the cached-audio
\* bucket and none of it to the cached-text bucket; with both shares given
\* each bucket receives its share; the non-cached amount of a category is
\* max(input of the category - cached of the category, 0).
C17_CachedTotalGoesToAudio ==
    \A ev \in CountedUsageEvents :
        LET u == ev.usage
            noSplit == u.cached_audio_tokens = Absent
                          /\ u.cached_text_tokens = Absent
            split == u.cached_audio_tokens # Absent
                          /\ u.cached_text_tokens # Absent
        IN  /\ noSplit => /\ Added(ev, "cachedAudioInput") = orZero(u.cached_tokens)
                           /\ Added(ev, "cachedTextInput") = 0
            /\ split => /\ Added(ev, "cachedAudioInput") = u.cached_audio_tokens
                         /\ Added(ev, "cachedTextInput") = u.cached_text_tokens
            /\ Added(ev, "textInput") =
                   Max(orZero(u.text_tokens) - Added(ev, "cachedTextInput"), 0)
            /\ Added(ev, "audioInput") =
                   Max(orZero(u.audio_tokens) - Added(ev, "cachedAudioInput"), 0)

\* C17 as amended: a cached total without breakdown goes to the cached-text
\* bucket and none of it to the cached-audio bucket; a share that is given
\* goes to its bucket; an audio share that is not given counts as 0 and a
\* text share that is not given as max(total - audio share, 0); the
\* non-cached amount of a category is max(input of the category - the amount
\* credited to the category's cached bucket, 0).
C17_CachedTotalGoesToText ==
    \A ev \in CountedUsageEvents :
        LET u == ev.usage
            noAudio == u.cached_audio_tokens = Absent
            noText == u.cached_text_tokens = Absent
        IN  /\ (noAudio /\ noText)
                   => /\ Added(ev, "cachedTextInput") = orZero(u.cached_tokens)
                      /\ Added(ev, "cachedAudioInput") = 0
            /\ ~noAudio => Added(ev, "cachedAudioInput") = u.cached_audio_tokens
            /\ ~noText => Added(ev, "cachedTextInput") = u.cached_text_tokens
            /\ (noAudio /\ ~noText) => Added(ev, "cachedAudioInput") = 0
            /\ (~noAudio /\ noText)
                   => Added(ev, "cachedTextInput") =
                          Max(orZero(u.cached_tokens) - u.cached_audio_tokens, 0)
            /\ Added(ev, "textInput") =
                   Max(orZero(u.text_tokens) - Added(ev, "cachedTextInput"), 0)
            /\ Added(ev, "audioInput") =
                   Max(orZero(u.audio_tokens) - Added(ev, "cachedAudioInput"), 0)

\* A usage with a cached total and no breakdown was counted, into the
\* cached-text bucket alone.
C17_Witness ==
    /\ seenCases = {"cached total alone"}
    /\ tokenUsage.response.cachedTextInput = 3
    /\ tokenUsage.response.cachedAudioInput = 0

\* The six token counters of the ledger.
Counters ==
    { "textInput", "audioInput", "textOutput", "audioOutput",
      "cachedTextInput", "cachedAudioInput" }

\* C18: no step makes a token counter of the ledger negative or smaller than
\* it was, also when the cached count of a category exceeds its input count.
C18_CountersNeverDecrease ==
    [][ \A c \in Counters :
            /\ tokenUsage'.response[c] >= 0
            /\ tokenUsage'.response[c] >= tokenUsage.response[c] ]_vars

\* A usage whose cached audio count exceeds its audio input count was
\* counted: the audio input counter stayed where it was, at zero.
C18_Witness ==
    /\ "cached exceeds input" \in seenCases
    /\ tokenUsage.response.cachedAudioInput >= 3
    /\ tokenUsage.response.audioInput = 0

\* ------------------------------------------------------- speech: the claims
\* C19: a step in which the tail of the teardown runs while a speaking turn
\* is open adds the time elapsed since its speech_started to the speech total,
\* once; with no turn open it leaves the total as it is; either way no turn
\* is open afterwards, and the cost summary the step logs shows the total as
\* the step leaves it.
C19_OpenTurnCreditedAtTeardown ==
    [][ teardownFinished' > teardownFinished
            => /\ tokenUsage'.speechDurationSeconds =
                      tokenUsage.speechDurationSeconds
                          + (IF userSpeaking /\ speechStartTimestamp # 0
                             THEN now - speechStartTimestamp ELSE 0)
               /\ ~userSpeaking' /\ speechStartTimestamp' = 0
               /\ costSummary' = Append(costSummary, tokenUsage') ]_vars

\* The teardown closed an open turn that had lasted two readings of the
\* clock, and the summary it logged shows them.
C19_Witness ==
    /\ "open turn closed at teardown" \in seenCases
    /\ teardownFinished = 1 /\ Len(costSummary) = 1
    /\ costSummary[1].speechDurationSeconds = 2
    /\ tokenUsage.speechDurationSeconds = 2

\* ---------------------------------------------------- recording: the claims
\* C20: after every step at most one recorder is recording, and it is the
\* one combinedRecorder holds; a step starts a recorder only when none is
\* recording and the camera, microphone and assistant streams are all
\* present; the ontrack and open handlers change nothing of the recording
\* when they run while a recorder is recording.
C20_OneRecorderThreeStreams ==
    [][ /\ activeRecorders' <= 1
        /\ (activeRecorders' = 1) <=> (combinedRecorder' = "recording")
        /\ activeRecorders' > activeRecorders
               => /\ activeRecorders = 0
                  /\ cameraStream' /\ candidateAudioStream'
                  /\ assistantAudioStream'
        /\ (combinedRecorder = "recording" /\ (OnTrack \/ DcOpen))
               => UNCHANGED << combinedRecorder, combinedChunks,
                               combinedRecordingStopped, activeRecorders >> ]_vars

\* In the second session of the page a recorder is recording again, with a
\* chunk collected, after the ontrack and the open handler have both run.
C20_Witness ==
    /\ sessionNo = 2 /\ activeRecorders = 1 /\ combinedRecorder = "recording"
    /\ dataChannel = "open" /\ combinedChunks = 1

\* ------------------------------------------------- recording: stop and upload
\* stopInterview is suspended at `await stopCombinedRecording()`.
Awaiting == stopPc # "idle"

\* This step runs the part of stopInterview after the await: the cost summary,
\* the transcript hand-off, the terminal line.
TailRuns ==
    \/ teardownFinished' > teardownFinished
    \/ costSummary' # costSummary
    \/ savedTranscript' # savedTranscript
    \/ EndedLines' # EndedLines

\* C21 as stated: when a recording is active at teardown, stopInterview goes
\* on to the cost summary and the transcript hand-off only in the step in
\* which the one upload of the recorder's stop handler has settled.
C21_StopResolvesAfterUpload ==
    [][ /\ (combinedRecorder = "recording"
             /\ teardownStarted' > teardownStarted) => Awaiting' /\ ~TailRuns
        /\ (Awaiting /\ (TailRuns \/ ~Awaiting'))
               => stopPc = "awaitUpload" /\ uploadCount = 1 ]_vars

\* C21, amended: the same when the recorder has captured at least one chunk;
\* with no chunk captured, stopInterview goes on from the recorder's stop
\* handler and nothing is uploaded.
C21_StopResolvesAfterUploadOfChunks ==
    [][ /\ (combinedRecorder = "recording"
             /\ teardownStarted' > teardownStarted) => Awaiting' /\ ~TailRuns
        /\ (Awaiting /\ (TailRuns \/ ~Awaiting'))
               => \/ stopPc = "awaitUpload" /\ uploadCount = 1
                  \/ stopPc = "awaitStop" /\ combinedChunks = 0
                       /\ uploadCount' = 0
        /\ (stopPc = "awaitStop" /\ stopPc' # "awaitStop" /\ combinedChunks > 0)
               => stopPc' = "awaitUpload" /\ uploadCount' = 1 ]_vars

\* A recording with a chunk was stopped, uploaded once, and teardown finished.
C21_Witness ==
    teardownFinished = 1 /\ uploadCount = 1 /\ ~Awaiting /\ Len(costSummary) > 0

\* C22 as stated: a session whose teardown has finished has uploaded its
\* combined recording exactly once.
C22_UploadsExactlyOnce ==
    teardownFinished = 1 => uploadCount = 1

\* C22, amended: no session uploads twice; a teardown that stops a recording
\* holding at least one chunk uploads it once, whichever trigger began it; a
\* teardown with no recording to stop, or with no chunk, uploads nothing; and
\* nothing is uploaded once teardown has finished.
C22_UploadsOnceWhenChunksRecorded ==
    [][ /\ uploadCount' <= 1
        /\ (stopPc = "awaitStop" /\ stopPc' # "awaitStop")
               => uploadCount' = IF combinedChunks > 0 THEN 1 ELSE 0
        /\ (teardownStarted' > teardownStarted
             /\ combinedRecorder # "recording")
               => uploadCount' = 0 /\ teardownFinished' = 1
        /\ (teardownFinished = 1 /\ sessionNo' = sessionNo)
               => uploadCount' = uploadCount
        /\ (teardownFinished' = 1 /\ uploadCount' = 1)
               => endTrigger' \in {"user", "playback", "timer"} ]_vars

\* The fail-safe timer ended a session whose recording was uploaded once.
C22_Witness ==
    teardownFinished = 1 /\ uploadCount = 1 /\ endTrigger = "timer"

\* C23: the step in which the upload request fails makes no further request
\* and completes the teardown (stopInterview resumes: cost summary, transcript
\* hand-off, terminal line, session ended), and until the next start nothing
\* is uploaded again and the session stays ended.
C23_FailedUploadDoesNotBlockTeardown ==
    [][ /\ (uploadFailed' /\ ~uploadFailed)
               => /\ uploadCount = 1 /\ uploadCount' = 1
                  /\ stopPc' = "idle"
                  /\ teardownFinished' = 1
                  /\ alreadyEnded' /\ ~isSessionActive'
                  /\ combinedRecorder' = "null"
                  /\ Len(costSummary') = Len(costSummary) + 1
                  /\ pendingTranscriptSave'
                        \/ buildTranscriptFromDom(Cur) = << >>
                  /\ chatContainer' =
                        addSystemMessage(Cur, SessionEndedText).chatContainer
        /\ (uploadFailed /\ sessionNo' = sessionNo)
               => /\ uploadFailed'
                  /\ uploadCount' = 1
                  /\ teardownFinished' = 1
                  /\ alreadyEnded' /\ ~isSessionActive'
                  /\ costSummary' = costSummary ]_vars

\* The upload of a session's recording failed and the session is ended.
C23_Witness ==
    uploadFailed /\ teardownFinished = 1 /\ alreadyEnded /\ uploadCount = 1

\* ------------------------------------------------------- start-up: the claims
\* How many events of one type a log of sent events holds.
CountOf(log, type) == Cardinality({ i \in DOMAIN log : log[i] = type })

\* At most one greeting, and none before a configuration update.
GreetingOnceAfterUpdate(log) ==
    /\ CountOf(log, "response.create") <= 1
    /\ \A i \in DOMAIN log :
           log[i] = "response.create"
               => \E j \in 1..(i - 1) : log[j] = "session.update"

\* C24: the events sent since the start action hold at most one greeting, and
\* it comes after the configuration update; that stays so when the greeting
\* trigger runs again, once or twice, in whatever state the script is in.
C24_OneGreetingAfterUpdate ==
    /\ GreetingOnceAfterUpdate(sentEvents)
    /\ GreetingOnceAfterUpdate(triggerInitialGreeting(Cur).sentEvents)
    /\ GreetingOnceAfterUpdate(
           triggerInitialGreeting(triggerInitialGreeting(Cur)).sentEvents)
    /\ (hasSentGreeting /\ dataChannel = "open")
           => triggerInitialGreeting(Cur) = Cur

\* The channel opened: the configuration update and the greeting were sent.
C24_Witness ==
    /\ sentEvents = << "session.update", "response.create" >>
    /\ hasSentGreeting /\ dataChannel = "open"

\* The requests of one start action: the relay first, each path at most once,
\* the direct offer only with a credential fetched before it.
PathsOnceRelayFirst(log) ==
    /\ log # << >> => log[1] = "relay"
    /\ CountOf(log, "relay") <= 1
    /\ CountOf(log, "token") <= 1
    /\ CountOf(log, "direct") <= 1
    /\ \A i \in DOMAIN log :
           /\ log[i] = "direct" => i > 1 /\ log[i - 1] = "token"
           /\ log[i] = "token" => i > 1 /\ log[i - 1] = "relayFailed"

\* The fallback path was attempted / the primary path failed.
FallbackAttempted == CountOf(negotiationLog, "token") > 0
PrimaryFailed == CountOf(negotiationLog, "relayFailed") > 0

\* C25 as stated: relay first, each path at most once, and the fallback is
\* attempted exactly when the primary path failed.
C25_FallbackIffPrimaryFailed ==
    /\ PathsOnceRelayFirst(negotiationLog)
    /\ FallbackAttempted <=> PrimaryFailed

\* C25, amended: the same on a page opened without ?azure=1; on a page opened
\* with it the relay is the only path, and its failure fails the start.
C25_FallbackIffPrimaryFailedUnlessAzure ==
    /\ PathsOnceRelayFirst(negotiationLog)
    /\ ~USE_AZURE_REALTIME => (FallbackAttempted <=> PrimaryFailed)
    /\ USE_AZURE_REALTIME => ~FallbackAttempted
    /\ (USE_AZURE_REALTIME /\ PrimaryFailed)
           => startPc = "idle" /\ ~isSessionActive /\ ~startDisabled

\* The relay failed and the session came up over the fallback path.
C25_Witness ==
    /\ negotiationLog = << "relay", "relayFailed", "token", "direct" >>
    /\ isSessionActive

\* The last request of the last path getSdpAnswer has on this page failed.
AllPathsFailed(log, azure) ==
    /\ log # << >>
    /\ \/ log[Len(log)] \in { "tokenFailed", "directFailed" }
       \/ azure /\ log[Len(log)] = "relayFailed"

\* The start action of this session was aborted: the microphone was refused
\* (no request was made), or every path failed.
Aborted ==
    /\ sessionNo >= 1
    /\ \/ startPc = "idle" /\ negotiationLog = << >>
       \/ AllPathsFailed(negotiationLog, USE_AZURE_REALTIME)

\* C26: the step in which a start action is aborted writes one error line and
\* enables the start control, with the session inactive and nothing sent;
\* until the next start action the session stays inactive, nothing is sent,
\* and startInterview is idle with the start control enabled (the guard of
\* StartClick), so that a start action can follow.
C26_FailedStartIsAborted ==
    [][ /\ (Aborted' /\ ~Aborted /\ sessionNo' = sessionNo)
               => /\ startPc # "idle"
                  /\ chatContainer' = showError(Cur, ErrorText).chatContainer
        /\ Aborted'
               => /\ startPc' = "idle" /\ ~startDisabled'
                  /\ ~isSessionActive'
                  /\ sentEvents' = << >> ]_vars

\* A start action was aborted, and the next one brought a session up.
C26_Witness ==
    /\ sessionNo = 2 /\ isSessionActive
    /\ \E i \in DOMAIN chatContainer :
           chatContainer[i].content = << "Error: " >> \o ErrorText
    /\ sentEvents = << "session.update", "response.create" >>

\* C27: page load enables the start control with or without a camera; without
\* one, the channel's opening makes the session active, no recorder is ever
\* made and nothing is uploaded, and the step that begins teardown finishes
\* it; a refused microphone aborts the start with the error line, the session
\* inactive and nothing sent.
C27_CameraOptionalMicrophoneRequired ==
    [][ /\ (sessionDetails' /\ ~sessionDetails) => ~startDisabled'
        /\ ~cameraStream'
               => /\ combinedRecorder' = "null" /\ uploadCount' = 0
                  /\ (dataChannel' = "open" /\ dataChannel # "open")
                         => isSessionActive' /\ ~stopDisabled'
                  /\ teardownStarted' > teardownStarted
                         => /\ teardownFinished' = 1
                            /\ ~isSessionActive' /\ ~micTrackLive'
                            /\ ~startDisabled'
        /\ (startPc = "awaitMic" /\ startPc' = "idle")
               => /\ chatContainer' = showError(Cur, ErrorText).chatContainer
                  /\ ~isSessionActive' /\ ~startDisabled'
                  /\ sentEvents' = << >> /\ dataChannel' # "open"
        /\ (startPc = "idle" /\ negotiationLog = << >>)
               => ~isSessionActive' \/ sessionNo' # sessionNo ]_vars

\* Without a camera a session was started, became active and was torn down.
C27_Witness ==
    /\ sessionDetails /\ ~cameraStream
    /\ sentEvents = << "session.update", "response.create" >>
    /\ teardownFinished = 1 /\ ~isSessionActive /\ ~micTrackLive

\* ------------------------------------------------------ media tracks: the claim
\* C28: once a path that ends a session (teardown by the user, by the end of
\* playback or by the fail-safe timer) or aborts a start has completed, no
\* track of the camera stream or of the microphone stream is live.
C28_NoTrackLiveAfterEnd ==
    (teardownFinished = 1 \/ Aborted) => ~micTrackLive /\ ~cameraTrackLive

\* ------------------------------------------ server events: the whole switch
\* Bound: error events the server sends in one session.
MaxErrors == 1

AnErrorOccurred == << "An error occurred" >>

\* case 'error' that also ends the session.
onErrorEndsSession(s, message) ==
    stopInterview(
        showError(s, IF message # NoText THEN message ELSE AnErrorOccurred))

\* case 'error': event.error.message || 'An error occurred' is shown.
onError(s, message) ==
    showError(s, IF message # NoText THEN message ELSE AnErrorOccurred)

\* case 'conversation.item.added' / 'conversation.item.done'
onConversationItem(s, item) ==
    IF item.id = NoId \/ item.role = "none" THEN s
    ELSE LET s1 == upsertMessage(s, item.id, item.role, item.text)
             s2 == IF item.role = "assistant"
                   THEN [s1 EXCEPT !.currentAssistantItemId = item.id,
                                   !.currentUserItemId = NoId]
                   ELSE IF item.role = "user"
                   THEN [s1 EXCEPT !.currentUserItemId = item.id]
                   ELSE s1
         IN  IF item.type = "function_call" /\ item.name = "end_interview"
                /\ ~s2.alreadyEnded
             THEN handleEndInterviewSignal(s2)
             ELSE s2

\* handleServerEvent: the switch on event.type, for the event types that can
\* carry the end_interview call and for 'error'.
handleServerEvent(s, ev) ==
    CASE ev.type \in { "conversation.item.added", "conversation.item.done" }
            -> onConversationItem(s, ev.item)
      [] ev.type \in { "response.output_item.added",
                       "response.output_item.done" }
            -> onOutputItem(s, ev.item)
      [] ev.type = "response.done" -> onResponseDone(s, ev.response)
      [] ev.type = "error" -> onError(s, ev.message)
      [] OTHER -> s

\* ---------------------------------------------- a live session and its events
NoItem ==
    [ id |-> NoId, role |-> "none", text |-> NoText, type |-> "none",
      name |-> "none" ]

NoResponse ==
    [ id |-> NoId, hasUsage |-> FALSE, usage |-> EmptyUsage,
      endCall |-> FALSE ]

\* The end_interview function-call item: an id, a type and a name, no role.
EndCallItem ==
    [ id |-> "F", role |-> "none", text |-> NoText, type |-> "function_call",
      name |-> "end_interview" ]

\* The items the server announces: the end_interview call, another function
\* call, an assistant message.
ServerItems ==
    { EndCallItem,
      [EndCallItem EXCEPT !.name = "other"],
      [ id |-> "A", role |-> "assistant", text |-> NoText,
        type |-> "message", name |-> "none" ] }

\* The responses the server reports done: r1 (and one without an id) holds the
\* end_interview call in its output, another one does not.
ServerResponses ==
    { [NoResponse EXCEPT !.id = "r1", !.endCall = TRUE],
      [NoResponse EXCEPT !.endCall = TRUE],
      NoResponse }

ErrorMessages == { NoText, << "m" >> }

ItemEventTypes ==
    { "conversation.item.added", "conversation.item.done",
      "response.output_item.added", "response.output_item.done" }

ServerEvents ==
    { [ type |-> t, item |-> i, response |-> NoResponse, message |-> NoText ] :
        t \in ItemEventTypes, i \in ServerItems }
    \cup { [ type |-> "response.done", item |-> NoItem, response |-> r,
             message |-> NoText ] : r \in ServerResponses }
    \cup { [ type |-> "error", item |-> NoItem, response |-> NoResponse,
             message |-> m ] : m \in ErrorMessages }

\* Error lines of the server in the chat log.
ErrorLines ==
    Len(SelectSeq(chatContainer, LAMBDA m :
            m.content \in { << "Error: " >> \o AnErrorOccurred,
                            << "Error: ", "m" >> }))

\* A message of the control channel is dispatched to handleServerEvent.
OnServerEventOf(ev) ==
    /\ Deliverable
    /\ nextTimerId <= MaxTimerIds
    /\ ev.type = "error" => ErrorLines < MaxErrors
    /\ Commit(handleServerEvent(Cur, ev))
    /\ UNCHANGED streamVars

OnServerEvent == \E ev \in ServerEvents : OnServerEventOf(ev)

ENext ==
    \/ OnServerEvent
    \/ OnOutputAudioStarted
    \/ OnOutputAudioStopped
    \/ StopClick
    \/ Tick
    \/ TimerFire
    \/ DataAvailable
    \/ RecorderOnStop
    \/ UploadSettled
    \/ DcDrained

SpecE == LiveInit /\ [][ENext]_vars

\* ------------------------------------------------- server events: the claims
\* C29: a step that handles a server error event adds one system line with
\* the error to the chat log and changes nothing else: the termination flags,
\* the fail-safe timer, the channel, the connection and the recorder are as
\* they were.
C29_ErrorEventOnlyAddsALine ==
    [][ ErrorLines' # ErrorLines
           => /\ ErrorLines' = ErrorLines + 1
              /\ Len(chatContainer') = Len(chatContainer) + 1
              /\ SubSeq(chatContainer', 1, Len(chatContainer)) = chatContainer
              /\ chatContainer'[Len(chatContainer')].role = "system"
              /\ UNCHANGED << alreadyEnded, pendingEndInterview,
                              pendingEndTimeout, timers, nextTimerId,
                              dataChannel, peerConnection, combinedRecorder,
                              combinedChunks, combinedRecordingStopped,
                              activeRecorders, isSessionActive,
                              outputAudioActive, micTrackLive, startDisabled,
                              stopDisabled, stopPc, teardownStarted,
                              teardownFinished, uploadCount >> ]_vars

\* An error was shown while the session was ending, and the session goes on:
\* active, the timer armed, the channel open, the recorder recording.
C29_Witness ==
    /\ ErrorLines = 1
    /\ isSessionActive /\ ~alreadyEnded /\ pendingEndInterview
    /\ pendingEndTimeout \in DOMAIN timers
    /\ dataChannel = "open" /\ peerConnection = "connected"
    /\ combinedRecorder = "recording"

\* The events that carry the end_interview call.
EndCallEvents ==
    { ev \in ServerEvents :
        \/ ev.type \in ItemEventTypes /\ ev.item = EndCallItem
        \/ ev.type = "response.done" /\ ev.response.endCall }

\* C30: in a session that has not ended, handling any event that carries the
\* end_interview call sets pendingEndInterview.
C30_EveryEndCallEventSetsPendingEnd ==
    (Deliverable /\ ~alreadyEnded)
        => \A ev \in EndCallEvents :
               handleServerEvent(Cur, ev).pendingEndInterview

\* ------------------------------------------------ fail-safe delay: the claim
\* Ticks until the fail-safe timer of a state is due.
TicksLeft(s) == s.timers[s.pendingEndTimeout]

\* C31: while a session is ending with its fail-safe timer armed, handling a
\* further event that carries the end_interview call leaves the timer due no
\* later than it was.
C31_RepeatDoesNotPostponeTeardown ==
    (Deliverable /\ pendingEndInterview /\ ~alreadyEnded
     /\ pendingEndTimeout \in DOMAIN timers)
        => \A ev \in EndCallEvents :
               LET r == handleServerEvent(Cur, ev)
               IN  /\ r.pendingEndTimeout \in DOMAIN r.timers
                   /\ TicksLeft(r) <= TicksLeft(Cur)

\* ------------------------------------- transcript events in any arrival order
\* The transcript event of id that carries text.
StreamEvent(id, text) == [item_id |-> id, response_id |-> "r1", text |-> text]

OInit ==
    /\ SessionInit
    /\ fullText = [i \in StreamIds |->
                      IF i = "A" THEN << "o", "k" >> ELSE << "h", "i", "!" >>]
    /\ deltaLog = [i \in StreamIds |-> << >>]
    /\ doneSeen = {} /\ createdSeen = {} /\ shorterKept = FALSE

\* The next n characters of id's text arrive as one delta event, before or
\* after the done event.
ODelta ==
    \E id \in StreamIds :
        /\ Len(deltaLog[id]) < MaxDeltas
        /\ \E n \in 1..(Len(fullText[id]) - Sent(id)) :
               LET ev == StreamEvent(id, SubSeq(fullText[id], Sent(id) + 1,
                                                Sent(id) + n))
               IN  /\ Commit(IF RoleOf(id) = "user"
                             THEN onUserTranscriptDelta(Cur, ev)
                             ELSE onAssistantTranscriptDelta(Cur, ev))
                   /\ deltaLog' = [deltaLog EXCEPT ![id] = Append(@, n)]
        /\ UNCHANGED << fullText, doneSeen, createdSeen, shorterKept >>

\* The delta event delivered last for id is delivered a second time.
ODeltaAgain ==
    \E id \in StreamIds :
        /\ deltaLog[id] # << >>
        /\ Len(cachedText(Cur, id)) <= Len(fullText[id])
        /\ LET n == deltaLog[id][Len(deltaLog[id])]
               ev == StreamEvent(id, SubSeq(fullText[id], Sent(id) - n + 1,
                                            Sent(id)))
           IN  Commit(IF RoleOf(id) = "user"
                      THEN onUserTranscriptDelta(Cur, ev)
                      ELSE onAssistantTranscriptDelta(Cur, ev))
        /\ UNCHANGED streamVars

\* The done (completed) event of id arrives with the full text, at any point
\* among the deltas, once or again.
ODone ==
    \E id \in StreamIds :
        /\ LET ev == StreamEvent(id, fullText[id])
           IN  Commit(IF RoleOf(id) = "user"
                      THEN onUserTranscriptCompleted(Cur, ev)
                      ELSE onAssistantTranscriptDone(Cur, ev))
        /\ doneSeen' = doneSeen \cup {id}
        /\ UNCHANGED << fullText, deltaLog, createdSeen, shorterKept >>

ONext == ODelta \/ ODeltaAgain \/ ODone

SpecO == OInit /\ [][ONext]_vars

\* C32: once every delta of an item and its done event have been delivered,
\* in whatever order and however often, the text stored for the item is its
\* full text.
C32_OrderDoesNotMatter ==
    \A id \in StreamIds :
        (id \in doneSeen /\ Sent(id) = Len(fullText[id]))
            => /\ cachedText(Cur, id) = fullText[id]
               /\ TurnOf(id).text = fullText[id]

\* ------------------------------------------ the per-role current-item pointers
\* C33: the pointers follow one protocol for both roles: creating an item of
\* a role sets that role's pointer and clears the other role's; a delta sets
\* its role's pointer; a terminal done/completed event clears its role's
\* pointer.  Stated of every event with an item id and a text, handled in the
\* current state.
C33_PointersFollowProtocol ==
    /\ \A item \in CreatedItems :
           item.id # NoId =>
               LET r == onItemCreated(Cur, item)
               IN  /\ item.role = "assistant"
                          => /\ r.currentAssistantItemId = item.id
                             /\ r.currentUserItemId = NoId
                   /\ item.role = "user"
                          => /\ r.currentUserItemId = item.id
                             /\ r.currentAssistantItemId = NoId
    /\ \A ev \in TranscriptEvents :
           (ev.item_id # NoId /\ ev.text # NoText) =>
               /\ onAssistantTranscriptDelta(Cur, ev).currentAssistantItemId
                      = ev.item_id
               /\ onUserTranscriptDelta(Cur, ev).currentUserItemId = ev.item_id
               /\ onAssistantTranscriptDone(Cur, ev).currentAssistantItemId
                      = NoId
               /\ onUserTranscriptCompleted(Cur, ev).currentUserItemId = NoId

\* ------------------------------------------- events that carry no item id
\* `user-${Date.now()}`
synthUserId == "user-now"

\* case 'input_audio_buffer.committed' of an event without usage; ev.text is
\* event.transcript || event.text.
onCommitted(s, ev) ==
    LET s1 == IF ev.item_id # NoId /\ ev.text # NoText
              THEN upsertMessage([s EXCEPT !.currentUserItemId = ev.item_id],
                                 ev.item_id, "user", ev.text)
              ELSE IF ev.text # NoText
              THEN upsertMessage([s EXCEPT !.currentUserItemId = synthUserId],
                                 synthUserId, "user", ev.text)
              ELSE s
    IN  [s1 EXCEPT !.userSpeaking = FALSE, !.speechStartTimestamp = 0]

\* The turns an event of `role` without item id may go to: the role's current
\* item, or one with a synthesized id.
FallbackTargets(s, role, ev) ==
    IF role = "assistant"
    THEN {s.currentAssistantItemId, synthAssistantId(ev.response_id)} \ {NoId}
    ELSE {s.currentUserItemId, synthUserId} \ {NoId}

\* Handling a delta took s to r and a fallback turn grew by the delta.
DeltaApplied(s, r, role, ev) ==
    \E id \in FallbackTargets(s, role, ev) :
        /\ id \in DOMAIN r.messageElements
        /\ cachedText(r, id) = cachedText(s, id) \o ev.text

\* Handling a final text took s to r and a fallback turn holds the text, or
\* keeps the longer text it held.
DoneApplied(s, r, role, ev) ==
    \E id \in FallbackTargets(s, role, ev) :
        /\ id \in DOMAIN r.messageElements
        /\ \/ cachedText(r, id) = ev.text
           \/ /\ Len(cachedText(s, id)) > Len(ev.text)
              /\ cachedText(r, id) = cachedText(s, id)

\* C34: a delta or done event of either role that has a text and no item id
\* is applied to a turn of its role.
C34_NoEventDroppedForLackOfId ==
    \A ev \in TranscriptEvents :
        (ev.item_id = NoId /\ ev.text # NoText) =>
            /\ DeltaApplied(Cur, onAssistantTranscriptDelta(Cur, ev),
                            "assistant", ev)
            /\ DoneApplied(Cur, onAssistantTranscriptDone(Cur, ev),
                           "assistant", ev)
            /\ DoneApplied(Cur, onCommitted(Cur, ev), "user", ev)
            /\ DeltaApplied(Cur, onUserTranscriptDelta(Cur, ev),
                            "user", ev)
            /\ DoneApplied(Cur, onUserTranscriptCompleted(Cur, ev),
                           "user", ev)

\* ------------------------------------------------- the order of the teardown
\* A live session with every trigger of the teardown and an open speaking
\* turn.
FNext ==
    \/ OnOutputItem
    \/ OnOutputAudioStarted
    \/ OnOutputAudioStopped
    \/ SpeechStarted
    \/ StopClick
    \/ Tick
    \/ TimerFire
    \/ DataAvailable
    \/ RecorderOnStop
    \/ UploadSettled
    \/ DcDrained

SpecF == LiveInit /\ [][FNext]_vars

\* The steps of stopInterview in the order of its text.
TeardownOrder ==
    << "channel closed", "tracks stopped", "connection closed",
       "recorder stopped", "stopwatch stopped", "speech finalized",
       "cost summary", "transcript hand-off", "terminal message" >>

PlaceOf(step) == CHOOSE i \in 1..Len(TeardownOrder) : TeardownOrder[i] = step

StepsTaken == { teardownLog[i] : i \in 1..Len(teardownLog) }

\* C35: whatever began the teardown, its steps are taken in one order: the
\* channel is closed before the tracks are stopped and the connection is
\* closed, the recorder's stop is awaited after that, and then the stopwatch
\* is stopped, an open speaking turn is finalized, the cost summary is logged,
\* the transcript is handed off and the terminal message is shown; a teardown
\* that began with a channel and a connection and has finished has taken every
\* step but, when no turn was open, the finalization.
C35_TeardownStepsInOrder ==
    /\ \A i, j \in 1..Len(teardownLog) :
           i < j => PlaceOf(teardownLog[i]) < PlaceOf(teardownLog[j])
    /\ (teardownStarted > 0 /\ teardownFinished = 0)
           => StepsTaken = {"channel closed", "tracks stopped",
                            "connection closed"}
    /\ teardownFinished > 0
           => /\ endTrigger \in {"user", "playback", "timer"}
              /\ StepsTaken \ {"speech finalized"}
                     = { TeardownOrder[i] : i \in 1..Len(TeardownOrder) }
                           \ {"speech finalized"}

C35_Witness ==
    /\ teardownFinished = 1
    /\ endTrigger = "timer"
    /\ teardownLog = TeardownOrder
    /\ uploadCount = 1

\* ------------------------------------------------ the control channel closes
\* C36: under LiveSpec, an active session whose control channel has closed is
\* eventually torn down, whether or not a stop is requested.
C36_ClosedChannelLeadsToEnded ==
    (dataChannel = "closed" /\ isSessionActive) ~> ~isSessionActive

\* ------------------------------------------------------- the two controls
\* The session begun by the last start action is connecting, active or being
\* torn down.
SessionUnderWay == sessionNo >= 1 /\ teardownFinished = 0 /\ ~Aborted

UserSaid ==
    /\ Deliverable
    /\ Commit(onUserTranscriptCompleted(Cur, StreamEvent("A", << "a" >>)))
    /\ UNCHANGED streamVars

VNext == Next \/ UserSaid

SpecV == Init /\ [][VNext]_vars

\* The entries of saveLog that session n made for `step`.
SaveSteps(n, step) ==
    { i \in 1..Len(saveLog) :
          saveLog[i].session = n /\ saveLog[i].step = step }

\* C38: a session whose teardown handed off a transcript that is not empty
\* has posted it once, and a request to /analyze follows a POST to
\* /transcript that completed without error.
C38_EverySessionSavesItsTranscript ==
    /\ \A n \in 1..MaxSessions :
           SaveSteps(n, "hand-off") # {}
               => Cardinality(SaveSteps(n, "transcript")) = 1
    /\ \A i \in 1..Len(saveLog) :
           saveLog[i].step = "analyze"
               => (i > 1 /\ saveLog[i - 1].step = "ok")

\* --------------------------------------------- the streams the recorder mixes
\* C39: a recorder that is recording mixes the microphone stream and the
\* assistant-audio stream received in the current session.
C39_RecorderMixesOwnStreams ==
    combinedRecorder = "recording"
        => /\ streamOrigin.mixedCandidate = sessionNo
           /\ streamOrigin.mixedAssistant = sessionNo

\* ------------------------------------- a live session: turns and committed
\* input_audio_buffer.committed events: without a transcript, and with one
\* and no item id.
CommittedEvents == { StreamEvent(NoId, NoText), StreamEvent(NoId, << "a" >>) }

Committed ==
    /\ Deliverable
    /\ \E ev \in CommittedEvents : Commit(onCommitted(Cur, ev))
    /\ UNCHANGED streamVars

CNext == SNext \/ Committed

SpecC == LiveInit /\ [][CNext]_vars

\* A speaking turn is open.
TurnOpen == userSpeaking /\ speechStartTimestamp # 0

SpeechTotal(s) == s.tokenUsage.speechDurationSeconds

\* r has closed the open turn and credited the time since its speech-started.
TurnCredited(r) ==
    /\ ~r.userSpeaking
    /\ SpeechTotal(r) = SpeechTotal(Cur) + (now - speechStartTimestamp)

\* r has left the open turn as it is.
TurnKept(r) ==
    /\ r.userSpeaking
    /\ r.speechStartTimestamp = speechStartTimestamp
    /\ SpeechTotal(r) = SpeechTotal(Cur)

\* r has credited the open turn and opened the next one now.
TurnRenewed(r) ==
    /\ r.userSpeaking
    /\ r.speechStartTimestamp = now
    /\ SpeechTotal(r) = SpeechTotal(Cur) + (now - speechStartTimestamp)

\* C40: while a speaking turn is open, speech-stopped and the teardown credit
\* it with the time since its speech-started, and an event in between
\* (committed, or another speech-started) does not lose it: the turn stays
\* open, or is credited in full; no handler decreases the total.
C40_EveryTurnCreditedOnce ==
    /\ TurnOpen
           => /\ TurnCredited(onSpeechStopped(Cur))
              /\ TurnCredited(finalizeSpeech(Cur))
              /\ \A ev \in CommittedEvents :
                     TurnKept(onCommitted(Cur, ev))
                         \/ TurnCredited(onCommitted(Cur, ev))
              /\ TurnKept(onSpeechStarted(Cur))
                     \/ TurnRenewed(onSpeechStarted(Cur))
    /\ \A ev \in CommittedEvents :
           SpeechTotal(onCommitted(Cur, ev)) >= SpeechTotal(Cur)
    /\ SpeechTotal(onSpeechStarted(Cur)) >= SpeechTotal(Cur)
    /\ SpeechTotal(onSpeechStopped(Cur)) >= SpeechTotal(Cur)
    /\ SpeechTotal(finalizeSpeech(Cur)) >= SpeechTotal(Cur)

====
